---------------------------- MODULE Spec2Model ----------------------------
(***************************************************************************)
(* Morse Link Engine: the half-duplex LinkArbiter (network-state.cpp) and  *)
(* the Telegrapher timing classifier (telegrapher.cpp).                    *)
(*                                                                         *)
(* Time is millis(): the variable now, in milliseconds, advanced by the    *)
(* Tick actions.  A handler is one action and reads one value of millis()  *)
(* for its whole run (the handlers never wait) and does not wrap within    *)
(* the runs explored.  Init is the state at the end of setup(): the        *)
(* modules initialised and every callback registered; a callback returns   *)
(* without calling back into the module that invoked it.                   *)
(*                                                                         *)
(* Left out, because nothing reads them but the log: lastStateChangeAt,    *)
(* lastDbg and freeAttempts of network-state.cpp, and the key driver's own *)
(* queue and counters.  The re-entry guards of network-state.cpp are clear *)
(* at every top-level call, which is all that is modelled here.            *)
(***************************************************************************)
EXTENDS Integers, Sequences, FiniteSets, TLC

VARIABLES
  now,        \* millis()
  ticks,      \* how many times the clock has advanced (bounded)
  ns,         \* the statics of network-state.cpp
  nsCall,     \* the last LinkArbiter call: its name and the state it found
  pin,        \* the key: TRUE while it is held down
  mk,         \* the statics of morse-key.cpp read by its interrupt handler
  tg,         \* the statics of telegrapher.cpp
  tgCall,     \* the last Telegrapher call: "isr", "update" or "none"
  q,          \* the key-event ring alone, with what went in and what came out
  qPc,        \* where loop() stands in tg_pop_event: "idle", "check" or "lock"
  nc,         \* the statics of network-connect.cpp
  ncCall,     \* the last PeerNegotiator call: what it found and what it was given
  pr,         \* two endpoints running network-connect.cpp against each other
  mt          \* the last call of morse-telecom.cpp and the line on the wire

nsVars == <<ns, nsCall>>
tgVars == <<pin, mk, tg, tgCall>>
qVars == <<q, qPc>>
ncVars == <<nc, ncCall, pr, mt>>
vars == <<now, ticks, ns, nsCall, pin, mk, tg, tgCall, q, qPc, nc, ncCall, pr, mt>>

(***************************************************************************)
(* Program constants                                                       *)
(***************************************************************************)
STATE_ACTIVITY_TIMEOUT_MS == 5000
STATE_MIN_TX_MS == 40
STATE_MIN_RX_MS == 40
BootMs == 50
MIN_DOWN_MS == 35
DOT_MAX_MS == 200
LETTER_GAP_MS == 500
LONG_PRESS_MS == 3000
BootGuardMs == 5000
LetterBufSize == 32
ISR_DEBOUNCE_US == 20000
SCAN_INTERVAL_MS == 800
SCAN_TIMEOUT_MS == 7000
MAX_SCAN_ATTEMPTS == 3
CONNECT_RETRY_MS == 4000
CONNECT_WIFI_TIMEOUT_MS == 5000
HEARTBEAT_INTERVAL_MS == 1500
HEARTBEAT_TIMEOUT_MS == 6000
RescanMs == 20000

(***************************************************************************)
(* Bounds of the model                                                     *)
(***************************************************************************)
\* How often the clock advances in a run, and by how much each time.
NsMaxTicks == 4
NsSteps == {1, STATE_MIN_TX_MS, STATE_ACTIVITY_TIMEOUT_MS}
TgMaxTicks == 4
TgSteps == {MIN_DOWN_MS, DOT_MAX_MS, LETTER_GAP_MS, LONG_PRESS_MS}
\* The size of the key-event ring: 64 in telegrapher.cpp unless the build
\* overrides it; kept small here so that the ring fills and wraps.
TG_EVENT_Q_SZ == 2
\* How many edges the interrupt pushes in a run of the ring alone.
QMaxPush == 5
\* The size of the key driver's own ring of edges: 32 in morse-key.cpp; kept small
\* here so that the ring fills and wraps.
MK_EVENT_Q_SZ == 2
NcMaxTicks == 4
\* Reading the stream in pieces: the clock advances RxMaxTicks times and the
\* line being assembled has at most RxMaxLine bytes (the buffer takes 127).
RxMaxTicks == 3
RxMaxLine == 4
PrMaxTicks == 5
NcSteps == {HEARTBEAT_INTERVAL_MS, HEARTBEAT_TIMEOUT_MS, RescanMs + 1000}
\* The size of the outgoing queue: 32 in network-connect.cpp; kept small here so
\* that the queue fills and wraps.
OUTQ_SIZE == 2
\* How many lines are enqueued in a run, and how often its clock advances.
OqMaxPush == 4
OqMaxTicks == 3
OqSteps == {HEARTBEAT_INTERVAL_MS, HEARTBEAT_TIMEOUT_MS}
\* Two endpoints on one line: the clock advances LnMaxTicks times, and an
\* endpoint has at most LnMaxWire lines in flight.
LnMaxTicks == 2
LnMaxWire == 2
LnSteps == {1, STATE_MIN_TX_MS}
\* How often the clock advances in a run with re-entering callbacks, and how
\* deep the calls made by callbacks nest.
ReMaxTicks == 1
ReMaxNest == 1
ReSteps == {STATE_MIN_TX_MS, STATE_ACTIVITY_TIMEOUT_MS}
\* How often the clock advances in a run of the key with bounces: by less than
\* the interrupt's debounce window, or by the long-press time.
KeyMaxTicks == 4
KeyBounceMs == 10
KeySteps == {KeyBounceMs, LONG_PRESS_MS}

FREE == "FREE"
TX == "TX"
RX == "RX"
CONTENTION == "CONTENTION"
ConnectionState == {FREE, TX, RX, CONTENTION}

(***************************************************************************)
(* LinkArbiter.  Every function below takes the value t of millis() and    *)
(* the statics st, and returns the statics it leaves.  st.cbs is the list  *)
(* of arguments with which cb_stateChange has been invoked in this call;   *)
(* st.trace is the list of values currentState has been assigned;          *)
(* st.sends lists the send callbacks invoked in this call: "down" for      *)
(* cb_localDown, "up" for cb_localUp.                                      *)
(***************************************************************************)
traceUpdateActivity(t, st) == [st EXCEPT !.lastActivityAt = t]

\* doStateChange without its early return: it "changes" to the state it is already in.
doStateChange_NoEarlyReturn(s, t, st) ==
  [traceUpdateActivity(t, st) EXCEPT
     !.currentState = s,
     !.trace = Append(@, s),
     !.cbs = Append(@, s)]

doStateChange(s, t, st) ==
  IF s = st.currentState THEN st
  ELSE [traceUpdateActivity(t, st) EXCEPT
          !.currentState = s,
          !.trace = Append(@, s),
          !.cbs = Append(@, s)]

\* resolveContention that only handles the even tie-break.
resolveContention_EvenOnly(t, st) ==
  IF t % 2 = 0 THEN doStateChange(TX, t, st) ELSE st

resolveContention(t, st) ==
  IF t % 2 = 0 THEN doStateChange(TX, t, st) ELSE doStateChange(RX, t, st)

updateNetworkState(t, st) ==
  IF st.currentState = CONTENTION THEN resolveContention(t, st)
  ELSE IF /\ st.currentState # FREE
          /\ t - st.lastActivityAt >= STATE_ACTIVITY_TIMEOUT_MS
          /\ ~st.localPressed /\ ~st.remotePressed
       THEN doStateChange(FREE, t, st)
  ELSE LET moved == st.lastObservedActivity # st.lastActivityAt
           s1 == IF moved THEN [st EXCEPT !.lastObservedActivity = st.lastActivityAt] ELSE st
           idleTx == st.currentState = TX /\ ~st.localPressed /\ ~st.remotePressed
       IN  IF ~moved /\ t - st.lastObservedActivity >= STATE_ACTIVITY_TIMEOUT_MS /\ idleTx
           THEN doStateChange(FREE, t, s1)
           ELSE IF idleTx /\ t - s1.lastActivityAt >= STATE_ACTIVITY_TIMEOUT_MS * 2
                THEN doStateChange(FREE, t, s1)
           ELSE s1

\* ns_requestLocalDown with the test of remotePressed inverted.
ns_requestLocalDown_Inverted(t, st) ==
  IF st.localPressed THEN st
  ELSE LET s1 == traceUpdateActivity(t, [st EXCEPT !.localPressed = TRUE, !.localPressAt = t,
                                                   !.sends = Append(@, "down")])
           s2 == IF ~s1.remotePressed THEN doStateChange(CONTENTION, t, s1)
                 ELSE doStateChange(TX, t, s1)
       IN  updateNetworkState(t, s2)

ns_requestLocalDown(t, st) ==
  IF st.localPressed THEN st
  ELSE LET s1 == traceUpdateActivity(t, [st EXCEPT !.localPressed = TRUE, !.localPressAt = t,
                                                   !.sends = Append(@, "down")])
           s2 == IF s1.remotePressed THEN doStateChange(CONTENTION, t, s1)
                 ELSE doStateChange(TX, t, s1)
       IN  updateNetworkState(t, s2)

\* ns_requestLocalUp that frees the line at the release instead of keeping TX.
ns_requestLocalUp_FreeOnRelease(t, st) ==
  IF ~st.localPressed THEN st
  ELSE LET dur == t - st.localPressAt
           s1 == traceUpdateActivity(t, [st EXCEPT !.localPressed = FALSE])
           s2 == [s1 EXCEPT !.sends = Append(@, "up")]
       IN  IF dur < STATE_MIN_TX_MS THEN updateNetworkState(t, s1)
           ELSE IF s2.remotePressed THEN updateNetworkState(t, doStateChange(RX, t, s2))
           ELSE updateNetworkState(t, doStateChange(FREE, t, s2))

\* ns_requestLocalUp without the hand-over to a remote side that is pressed.
ns_requestLocalUp_NoHandover(t, st) ==
  IF ~st.localPressed THEN st
  ELSE LET dur == t - st.localPressAt
           s1 == traceUpdateActivity(t, [st EXCEPT !.localPressed = FALSE])
           s2 == [s1 EXCEPT !.sends = Append(@, "up")]
       IN  IF dur < STATE_MIN_TX_MS THEN updateNetworkState(t, s1)
           ELSE IF /\ ~s2.localPressed /\ ~s2.remotePressed
                   /\ t - s2.lastActivityAt >= STATE_ACTIVITY_TIMEOUT_MS
                THEN updateNetworkState(t, doStateChange(FREE, t, s2))
           ELSE IF s2.currentState = CONTENTION
                THEN updateNetworkState(t, doStateChange(TX, t, s2))
           ELSE updateNetworkState(t, s2)

ns_requestLocalUp(t, st) ==
  IF ~st.localPressed THEN st
  ELSE LET dur == t - st.localPressAt
           s1 == traceUpdateActivity(t, [st EXCEPT !.localPressed = FALSE])
           s2 == [s1 EXCEPT !.sends = Append(@, "up")]
       IN  IF dur < STATE_MIN_TX_MS THEN updateNetworkState(t, s1)
           ELSE IF s2.remotePressed THEN updateNetworkState(t, doStateChange(RX, t, s2))
           ELSE IF /\ ~s2.localPressed /\ ~s2.remotePressed
                   /\ t - s2.lastActivityAt >= STATE_ACTIVITY_TIMEOUT_MS
                THEN updateNetworkState(t, doStateChange(FREE, t, s2))
           ELSE IF s2.currentState = CONTENTION
                THEN updateNetworkState(t, doStateChange(TX, t, s2))
           ELSE updateNetworkState(t, s2)

ns_requestLocalSymbol(t, st) == updateNetworkState(t, traceUpdateActivity(t, st))

ns_notifyRemoteDown(t, st) ==
  IF st.remotePressed THEN st
  ELSE LET s1 == traceUpdateActivity(t, [st EXCEPT !.remotePressed = TRUE, !.remotePressAt = t])
           s2 == IF s1.localPressed THEN doStateChange(CONTENTION, t, s1)
                 ELSE doStateChange(RX, t, s1)
       IN  updateNetworkState(t, s2)

\* ns_notifyRemoteUp whose glitch test is dur <= STATE_MIN_RX_MS.
ns_notifyRemoteUp_GlitchInclusive(t, st) ==
  IF ~st.remotePressed THEN st
  ELSE LET dur == t - st.remotePressAt
           s1 == traceUpdateActivity(t, [st EXCEPT !.remotePressed = FALSE])
       IN  IF dur <= STATE_MIN_RX_MS THEN updateNetworkState(t, s1)
           ELSE IF s1.currentState \in {RX, CONTENTION}
                THEN updateNetworkState(t,
                       IF s1.localPressed THEN doStateChange(TX, t, s1)
                       ELSE doStateChange(FREE, t, s1))
           ELSE updateNetworkState(t, s1)

\* ns_notifyRemoteUp that frees the line without looking at the local key.
ns_notifyRemoteUp_FreeWhilePressed(t, st) ==
  IF ~st.remotePressed THEN st
  ELSE LET dur == t - st.remotePressAt
           s1 == traceUpdateActivity(t, [st EXCEPT !.remotePressed = FALSE])
       IN  IF dur < STATE_MIN_RX_MS THEN updateNetworkState(t, s1)
           ELSE IF s1.currentState \in {RX, CONTENTION}
                THEN updateNetworkState(t, doStateChange(FREE, t, s1))
           ELSE updateNetworkState(t, s1)

ns_notifyRemoteUp(t, st) ==
  IF ~st.remotePressed THEN st
  ELSE LET dur == t - st.remotePressAt
           s1 == traceUpdateActivity(t, [st EXCEPT !.remotePressed = FALSE])
       IN  IF dur < STATE_MIN_RX_MS THEN updateNetworkState(t, s1)
           ELSE IF s1.currentState \in {RX, CONTENTION}
                THEN updateNetworkState(t,
                       IF s1.localPressed THEN doStateChange(TX, t, s1)
                       ELSE doStateChange(FREE, t, s1))
           ELSE updateNetworkState(t, s1)

ns_notifyRemoteSymbol(t, st) == updateNetworkState(t, traceUpdateActivity(t, st))

(***************************************************************************)
(* initNetworkState(), called by setup() at millis() = BootMs.             *)
(***************************************************************************)
initNetworkState(t) ==
  [currentState |-> FREE, lastActivityAt |-> t,
   localPressed |-> FALSE, localPressAt |-> 0,
   remotePressed |-> FALSE, remotePressAt |-> 0,
   lastObservedActivity |-> 0,
   guard |-> {},
   trace |-> <<>>, cbs |-> <<>>, sends |-> <<>>,
   g_stack |-> <<>>, g_calls |-> <<>>, g_cbn |-> 0]

NoCall == [op |-> "none", state |-> FREE, localPressed |-> FALSE, remotePressed |-> FALSE,
           dur |-> 0, idle |-> 0]

\* What a call finds: the state, the pressed flags, how long the press it ends has
\* lasted (dur) and how long ago the last activity was (idle).
Entry(op, dur) ==
  [op |-> op, state |-> ns.currentState, localPressed |-> ns.localPressed,
   remotePressed |-> ns.remotePressed, dur |-> dur, idle |-> now - ns.lastActivityAt]

Fresh == [ns EXCEPT !.trace = <<>>, !.cbs = <<>>, !.sends = <<>>]

(***************************************************************************)
(* LinkArbiter with callbacks that call back into it, one step at a time.  *)
(* st.guard is the set of the __ns_guard_* flags that are set, each named  *)
(* by its function.  st.g_stack is the call stack: one frame for each call *)
(* of a transition function (or of updateNetworkState) that has not        *)
(* returned, with its position pc and whether it is inside a callback      *)
(* (cb).  The positions are "entry", "cb" (after cb_localDown or           *)
(* cb_localUp has returned), "update" (before the closing                  *)
(* updateNetworkState()), "exit" (before the guard is cleared) and "done". *)
(* A frame also keeps what its call found: whether the same function was   *)
(* already on the stack (nested), whether its guard was set (skipped), and *)
(* what was observable (snap).  g_cbn counts the callbacks invoked and     *)
(* g_calls lists the calls that have returned.                             *)
(***************************************************************************)
NsFn == {"requestLocalDown", "requestLocalUp", "requestLocalSymbol",
         "notifyRemoteDown", "notifyRemoteUp", "notifyRemoteSymbol"}

SetGuard(fn, st) == [st EXCEPT !.guard = @ \cup {fn}]
ClearGuard(fn, st) == [st EXCEPT !.guard = @ \ {fn}]

\* A step leaves the statics st, the next position pc, and cb: whether it ends
\* in the invocation of a callback.
Step(st, pc, cb) == [st |-> st, pc |-> pc, cb |-> cb]

\* doStateChange(s), whose last statement is the call of cb_stateChange.
step_doStateChange(s, t, st, pc) ==
  Step(doStateChange(s, t, st), pc, s # st.currentState)

\* The closing updateNetworkState() of a transition function: every
\* doStateChange in it is followed by a return.
step_updateNetworkState(t, st) ==
  LET s1 == updateNetworkState(t, st)
  IN  Step(s1, "exit", Len(s1.cbs) > Len(st.cbs))

step_ns_requestLocalDown(pc, t, st) ==
  CASE pc = "entry" ->
         IF "requestLocalDown" \in st.guard THEN Step(st, "done", FALSE)
         ELSE LET g == SetGuard("requestLocalDown", st)
              IN  IF g.localPressed THEN Step(ClearGuard("requestLocalDown", g), "done", FALSE)
                  ELSE Step(traceUpdateActivity(t, [g EXCEPT !.localPressed = TRUE,
                                                             !.localPressAt = t,
                                                             !.sends = Append(@, "down")]),
                            "cb", TRUE)
    [] pc = "cb" ->
         IF st.remotePressed THEN step_doStateChange(CONTENTION, t, st, "update")
         ELSE step_doStateChange(TX, t, st, "update")
    [] pc = "update" -> step_updateNetworkState(t, st)
    [] pc = "exit" -> Step(ClearGuard("requestLocalDown", st), "done", FALSE)

\* ns_requestLocalUp whose glitch exit returns with the guard still set.
step_ns_requestLocalUp_GuardLeak(pc, t, st) ==
  CASE pc = "entry" ->
         IF "requestLocalUp" \in st.guard THEN Step(st, "done", FALSE)
         ELSE LET g == SetGuard("requestLocalUp", st)
              IN  IF ~g.localPressed THEN Step(ClearGuard("requestLocalUp", g), "done", FALSE)
                  ELSE LET s1 == traceUpdateActivity(t, [g EXCEPT !.localPressed = FALSE])
                       IN  IF t - g.localPressAt < STATE_MIN_TX_MS
                           THEN Step(s1, "glitch", FALSE)
                           ELSE Step([s1 EXCEPT !.sends = Append(@, "up")], "cb", TRUE)
    [] pc = "glitch" ->
         LET s1 == updateNetworkState(t, st)
         IN  Step(s1, "leak", Len(s1.cbs) > Len(st.cbs))
    [] pc = "leak" -> Step(st, "done", FALSE)
    [] pc = "cb" ->
         IF st.remotePressed THEN step_doStateChange(RX, t, st, "update")
         ELSE IF /\ ~st.localPressed /\ ~st.remotePressed
                 /\ t - st.lastActivityAt >= STATE_ACTIVITY_TIMEOUT_MS
         THEN step_doStateChange(FREE, t, st, "update")
         ELSE IF st.currentState = CONTENTION
         THEN step_doStateChange(TX, t, st, "update")
         ELSE Step(st, "update", FALSE)
    [] pc = "update" -> step_updateNetworkState(t, st)
    [] pc = "exit" -> Step(ClearGuard("requestLocalUp", st), "done", FALSE)

step_ns_requestLocalUp(pc, t, st) ==
  CASE pc = "entry" ->
         IF "requestLocalUp" \in st.guard THEN Step(st, "done", FALSE)
         ELSE LET g == SetGuard("requestLocalUp", st)
              IN  IF ~g.localPressed THEN Step(ClearGuard("requestLocalUp", g), "done", FALSE)
                  ELSE LET s1 == traceUpdateActivity(t, [g EXCEPT !.localPressed = FALSE])
                       IN  IF t - g.localPressAt < STATE_MIN_TX_MS
                           THEN Step(s1, "update", FALSE)
                           ELSE Step([s1 EXCEPT !.sends = Append(@, "up")], "cb", TRUE)
    [] pc = "cb" ->
         IF st.remotePressed THEN step_doStateChange(RX, t, st, "update")
         ELSE IF /\ ~st.localPressed /\ ~st.remotePressed
                 /\ t - st.lastActivityAt >= STATE_ACTIVITY_TIMEOUT_MS
         THEN step_doStateChange(FREE, t, st, "update")
         ELSE IF st.currentState = CONTENTION
         THEN step_doStateChange(TX, t, st, "update")
         ELSE Step(st, "update", FALSE)
    [] pc = "update" -> step_updateNetworkState(t, st)
    [] pc = "exit" -> Step(ClearGuard("requestLocalUp", st), "done", FALSE)

step_ns_requestLocalSymbol(pc, t, st) ==
  CASE pc = "entry" ->
         IF "requestLocalSymbol" \in st.guard THEN Step(st, "done", FALSE)
         ELSE Step(traceUpdateActivity(t, SetGuard("requestLocalSymbol", st)), "update", TRUE)
    [] pc = "update" -> step_updateNetworkState(t, st)
    [] pc = "exit" -> Step(ClearGuard("requestLocalSymbol", st), "done", FALSE)

step_ns_notifyRemoteDown(pc, t, st) ==
  CASE pc = "entry" ->
         IF "notifyRemoteDown" \in st.guard THEN Step(st, "done", FALSE)
         ELSE LET g == SetGuard("notifyRemoteDown", st)
              IN  IF g.remotePressed THEN Step(ClearGuard("notifyRemoteDown", g), "done", FALSE)
                  ELSE LET s1 == traceUpdateActivity(t, [g EXCEPT !.remotePressed = TRUE,
                                                                  !.remotePressAt = t])
                       IN  IF s1.localPressed
                           THEN step_doStateChange(CONTENTION, t, s1, "update")
                           ELSE step_doStateChange(RX, t, s1, "update")
    [] pc = "update" -> step_updateNetworkState(t, st)
    [] pc = "exit" -> Step(ClearGuard("notifyRemoteDown", st), "done", FALSE)

step_ns_notifyRemoteUp(pc, t, st) ==
  CASE pc = "entry" ->
         IF "notifyRemoteUp" \in st.guard THEN Step(st, "done", FALSE)
         ELSE LET g == SetGuard("notifyRemoteUp", st)
              IN  IF ~g.remotePressed THEN Step(ClearGuard("notifyRemoteUp", g), "done", FALSE)
                  ELSE LET s1 == traceUpdateActivity(t, [g EXCEPT !.remotePressed = FALSE])
                       IN  IF t - g.remotePressAt < STATE_MIN_RX_MS
                           THEN Step(s1, "update", FALSE)
                           ELSE IF s1.currentState \in {RX, CONTENTION}
                           THEN IF s1.localPressed
                                THEN step_doStateChange(TX, t, s1, "update")
                                ELSE step_doStateChange(FREE, t, s1, "update")
                           ELSE Step(s1, "update", FALSE)
    [] pc = "update" -> step_updateNetworkState(t, st)
    [] pc = "exit" -> Step(ClearGuard("notifyRemoteUp", st), "done", FALSE)

step_ns_notifyRemoteSymbol(pc, t, st) ==
  CASE pc = "entry" ->
         IF "notifyRemoteSymbol" \in st.guard THEN Step(st, "done", FALSE)
         ELSE Step(traceUpdateActivity(t, SetGuard("notifyRemoteSymbol", st)), "update", TRUE)
    [] pc = "update" -> step_updateNetworkState(t, st)
    [] pc = "exit" -> Step(ClearGuard("notifyRemoteSymbol", st), "done", FALSE)

\* updateNetworkState() called by the loop.
step_poll(pc, t, st) ==
  CASE pc = "entry" -> step_updateNetworkState(t, st)
    [] pc = "exit" -> Step(st, "done", FALSE)

StepOf(fn, pc, t, st) ==
  CASE fn = "requestLocalDown" -> step_ns_requestLocalDown(pc, t, st)
    [] fn = "requestLocalUp" -> step_ns_requestLocalUp(pc, t, st)
    [] fn = "requestLocalSymbol" -> step_ns_requestLocalSymbol(pc, t, st)
    [] fn = "notifyRemoteDown" -> step_ns_notifyRemoteDown(pc, t, st)
    [] fn = "notifyRemoteUp" -> step_ns_notifyRemoteUp(pc, t, st)
    [] fn = "notifyRemoteSymbol" -> step_ns_notifyRemoteSymbol(pc, t, st)
    [] fn = "poll" -> step_poll(pc, t, st)

\* What a caller can observe of the statics: the pressed flags, the state, the
\* activity time and the callbacks invoked so far.
Observed(st) ==
  <<st.localPressed, st.remotePressed, st.currentState, st.lastActivityAt, st.g_cbn>>

\* The call fn(): a new frame on the stack.
Enter(fn, st) ==
  [st EXCEPT !.g_stack =
     Append(@, [fn |-> fn, pc |-> "entry", cb |-> FALSE,
                nested |-> \E i \in 1..Len(st.g_stack) : st.g_stack[i].fn = fn,
                skipped |-> fn \in st.guard,
                snap |-> Observed(st)])]

\* One step of the call on top of the stack; at "done" the call returns.
Advance(t, st) ==
  LET n == Len(st.g_stack)
      f == st.g_stack[n]
      r == StepOf(f.fn, f.pc, t, st)
      s1 == IF r.cb THEN [r.st EXCEPT !.g_cbn = @ + 1] ELSE r.st
  IN  IF r.pc = "done"
      THEN [s1 EXCEPT !.g_stack = SubSeq(@, 1, n - 1),
                      !.g_calls = Append(@, [fn |-> f.fn, nested |-> f.nested,
                                             skipped |-> f.skipped,
                                             changed |-> Observed(s1) # f.snap])]
      ELSE [s1 EXCEPT !.g_stack[n].pc = r.pc, !.g_stack[n].cb = r.cb]

ReFresh == [ns EXCEPT !.trace = <<>>, !.cbs = <<>>, !.sends = <<>>, !.g_calls = <<>>, !.g_cbn = 0]


(***************************************************************************)
(* Telegrapher.  A key event is [down, t_us]; the queue is the ring tg_q   *)
(* with tg_q_head, tg_q_tail and tg_q_count.  st.ev lists what the last    *)
(* call did, in order: the callbacks it invoked ("down", "symbol", "up",   *)
(* "longpress", "finalize") and, before the callbacks of a release, the    *)
(* entry "release" with the duration the code computed.  The fields g_*    *)
(* only observe: g_relAt is the time of the last release (-1: none),       *)
(* g_fin the number of Finalize callbacks since that release, g_lp the     *)
(* number of LongPress callbacks of the current press, g_prevLp that of    *)
(* the press before it, g_syms the symbols classified since the last       *)
(* Finalize, g_cap the time in ms between the capture stamps of the down   *)
(* edge and the up edge of the last release the call processed (-1: none), *)
(* g_dup whether the call met a down edge while pressed or an up edge      *)
(* while not pressed.                                                      *)
(***************************************************************************)
NoEvent == [down |-> FALSE, t_us |-> 0]

Ev(e, sym, dur, lp, prevLp, buf, syms) ==
  [e |-> e, sym |-> sym, dur |-> dur, lp |-> lp, prevLp |-> prevLp, buf |-> buf, syms |-> syms]

Log(st, e) == [st EXCEPT !.ev = Append(@, e)]

letter_clear(st) == [st EXCEPT !.letter_buf = <<>>]

letter_push_symbol(sym, st) ==
  IF sym \notin {".", "-"} THEN st
  ELSE LET b1 == IF Len(st.letter_buf) > 0 /\ Len(st.letter_buf) + 1 < LetterBufSize
                 THEN Append(st.letter_buf, " ") ELSE st.letter_buf
           b2 == IF Len(b1) + 1 < LetterBufSize THEN Append(b1, sym) ELSE b1
       IN  [st EXCEPT !.letter_buf = b2]

\* classifySymbol with a strict comparison.
classifySymbol_Strict(dur_ms) == IF dur_ms < DOT_MAX_MS THEN "." ELSE "-"

classifySymbol(dur_ms) == IF dur_ms <= DOT_MAX_MS THEN "." ELSE "-"

\* telegrapher_pushKeyEvent that overwrites the slot at the tail of a full ring
\* without dropping the oldest entry.
telegrapher_pushKeyEvent_NoDrop(ev, st) ==
  LET next == (st.tg_q_tail + 1) % TG_EVENT_Q_SZ
  IN  [st EXCEPT !.tg_q[st.tg_q_tail] = ev, !.tg_q_tail = next,
                 !.tg_q_count = IF @ < TG_EVENT_Q_SZ THEN @ + 1 ELSE @]

telegrapher_pushKeyEvent(ev, st) ==
  LET next == (st.tg_q_tail + 1) % TG_EVENT_Q_SZ
      s1 == IF st.tg_q_count >= TG_EVENT_Q_SZ
            THEN [st EXCEPT !.tg_q_head = (@ + 1) % TG_EVENT_Q_SZ, !.tg_q_count = @ - 1]
            ELSE st
  IN  [s1 EXCEPT !.tg_q[s1.tg_q_tail] = ev, !.tg_q_tail = next, !.tg_q_count = @ + 1]

\* tg_pop_event: the statics after the pop; the event popped is st.tg_q[st.tg_q_head].
tg_pop_event(st) ==
  [st EXCEPT !.tg_q_head = (@ + 1) % TG_EVENT_Q_SZ, !.tg_q_count = @ - 1]

\* process_edge_nonisr without the test for a duplicate down edge.
process_edge_nonisr_NoDupCheck(down, edge_us, process_ms, st) ==
  IF down
  THEN IF FALSE THEN st
       ELSE Log(letter_clear([st EXCEPT !.local_state_down = TRUE,
                                      !.last_local_down_ms = process_ms,
                                      !.last_edge_us = edge_us,
                                      !.long_press_handled = FALSE,
                                      !.g_prevLp = st.g_lp,
                                      !.g_lp = 0]),
                Ev("down", "", 0, 0, 0, st.letter_buf, st.g_syms))
  ELSE IF ~st.local_state_down THEN [st EXCEPT !.g_dup = TRUE]
       ELSE LET dur == process_ms - st.last_local_down_ms
                s1 == Log([st EXCEPT !.local_state_down = FALSE,
                                     !.last_local_up_ms = process_ms,
                                     !.g_relAt = process_ms,
                                     !.g_cap = (edge_us - st.last_edge_us) \div 1000,
                                     !.g_fin = 0],
                          Ev("release", "", dur, st.g_lp, st.g_prevLp, <<>>, <<>>))
                up == Ev("up", "", 0, 0, 0, <<>>, <<>>)
            IN  IF dur < MIN_DOWN_MS THEN Log(s1, up)
                ELSE IF s1.long_press_handled
                     THEN Log([s1 EXCEPT !.long_press_handled = FALSE], up)
                ELSE LET sym == classifySymbol(dur)
                         s2 == letter_push_symbol(sym, s1)
                         s3 == Log([s2 EXCEPT !.g_syms = Append(@, sym)],
                                   Ev("symbol", sym, dur, 0, 0, <<>>, <<>>))
                     IN  Log(s3, up)

process_edge_nonisr(down, edge_us, process_ms, st) ==
  IF down
  THEN IF st.local_state_down THEN [st EXCEPT !.g_dup = TRUE]
       ELSE Log(letter_clear([st EXCEPT !.local_state_down = TRUE,
                                      !.last_local_down_ms = process_ms,
                                      !.last_edge_us = edge_us,
                                      !.long_press_handled = FALSE,
                                      !.g_prevLp = st.g_lp,
                                      !.g_lp = 0]),
                Ev("down", "", 0, 0, 0, st.letter_buf, st.g_syms))
  ELSE IF ~st.local_state_down THEN [st EXCEPT !.g_dup = TRUE]
       ELSE LET dur == process_ms - st.last_local_down_ms
                s1 == Log([st EXCEPT !.local_state_down = FALSE,
                                     !.last_local_up_ms = process_ms,
                                     !.g_relAt = process_ms,
                                     !.g_cap = (edge_us - st.last_edge_us) \div 1000,
                                     !.g_fin = 0],
                          Ev("release", "", dur, st.g_lp, st.g_prevLp, <<>>, <<>>))
                up == Ev("up", "", 0, 0, 0, <<>>, <<>>)
            IN  IF dur < MIN_DOWN_MS THEN Log(s1, up)
                ELSE IF s1.long_press_handled
                     THEN Log([s1 EXCEPT !.long_press_handled = FALSE], up)
                ELSE LET sym == classifySymbol(dur)
                         s2 == letter_push_symbol(sym, s1)
                         s3 == Log([s2 EXCEPT !.g_syms = Append(@, sym)],
                                   Ev("symbol", sym, dur, 0, 0, <<>>, <<>>))
                     IN  Log(s3, up)

\* telegrapher_update, lines 231-234: process all queued edges.
RECURSIVE drainEdges(_, _)
drainEdges(t, st) ==
  IF st.tg_q_count = 0 THEN st
  ELSE LET ev == st.tg_q[st.tg_q_head]
       IN  drainEdges(t, process_edge_nonisr(ev.down, ev.t_us, t, tg_pop_event(st)))

\* Long-press detection that does not test long_press_handled.
pollLongPress_Repeat(t, st) ==
  IF /\ st.local_state_down
     /\ t - st.boot_ms > BootGuardMs
     /\ t - st.last_local_down_ms >= LONG_PRESS_MS
  THEN Log([st EXCEPT !.long_press_handled = TRUE,
                      !.g_lp = IF @ < 2 THEN @ + 1 ELSE @],
           Ev("longpress", "", t - st.last_local_down_ms, 0, 0, <<>>, <<>>))
  ELSE st

\* telegrapher_update, lines 236-246: long-press detection.
pollLongPress(t, st) ==
  IF /\ st.local_state_down /\ ~st.long_press_handled
     /\ t - st.boot_ms > BootGuardMs
     /\ t - st.last_local_down_ms >= LONG_PRESS_MS
  THEN Log([st EXCEPT !.long_press_handled = TRUE,
                      !.g_lp = IF @ < 2 THEN @ + 1 ELSE @],
           Ev("longpress", "", t - st.last_local_down_ms, 0, 0, <<>>, <<>>))
  ELSE st

\* Finalize that leaves last_local_up_ms set.
pollFinalize_NoDisarm(t, st) ==
  IF /\ ~st.local_state_down /\ st.last_local_up_ms # 0
     /\ t - st.last_local_up_ms >= LETTER_GAP_MS
  THEN letter_clear(
         [Log(st, Ev("finalize", "", t - st.g_relAt, 0, 0, st.letter_buf, st.g_syms))
            EXCEPT !.g_fin = IF @ < 2 THEN @ + 1 ELSE @,
                   !.g_syms = <<>>])
  ELSE st

\* telegrapher_update, lines 248-259: finalize the letter after the silence.
pollFinalize(t, st) ==
  IF /\ ~st.local_state_down /\ st.last_local_up_ms # 0
     /\ t - st.last_local_up_ms >= LETTER_GAP_MS
  THEN letter_clear(
         [Log(st, Ev("finalize", "", t - st.g_relAt, 0, 0, st.letter_buf, st.g_syms))
            EXCEPT !.last_local_up_ms = 0,
                   !.g_fin = IF @ < 2 THEN @ + 1 ELSE @,
                   !.g_syms = <<>>])
  ELSE st

telegrapher_update(t, st) == pollFinalize(t, pollLongPress(t, drainEdges(t, st)))

\* telegrapher_init(), called by setup() at millis() = BootMs.
telegrapher_init(t) ==
  [tg_q |-> [i \in 0..(TG_EVENT_Q_SZ - 1) |-> NoEvent],
   tg_q_head |-> 0, tg_q_tail |-> 0, tg_q_count |-> 0,
   local_state_down |-> FALSE, last_local_down_ms |-> 0, last_local_up_ms |-> 0,
   last_edge_us |-> 0, long_press_handled |-> FALSE,
   boot_ms |-> t, letter_buf |-> <<>>,
   ev |-> <<>>,
   g_relAt |-> -1, g_fin |-> 0, g_lp |-> 0, g_prevLp |-> 0, g_syms |-> <<>>, g_cap |-> -1,
   g_dup |-> FALSE]

TgFresh == [tg EXCEPT !.ev = <<>>, !.g_cap = -1, !.g_dup = FALSE]

(***************************************************************************)
(* The key interrupt, mk_isr_handler, up to its hand-over to Telegrapher.  *)
(* state is the level read from the pin (TRUE: key down).  The driver's    *)
(* own ring and counters (lines 126-145) are mk_enqueue, below.  The fields *)
(* g_* only observe: g_pressAt is micros() at the last raw down            *)
(* transition, g_pushed the number of edges of that press handed to        *)
(* telegrapher_pushKeyEvent, g_accAt the time of the last transition the   *)
(* handler accepted.                                                       *)
(***************************************************************************)
Observe(now_us, state, pushed, m) ==
  IF state
  THEN [m EXCEPT !.g_pressAt = now_us, !.g_pushed = IF pushed THEN 1 ELSE 0]
  ELSE [m EXCEPT !.g_pushed = IF pushed THEN @ + 1 ELSE @]

mk_isr_handler(now_us, state, m, st) ==
  IF now_us - m.last_isr_us < ISR_DEBOUNCE_US
  THEN [mk |-> Observe(now_us, state, FALSE, [m EXCEPT !.last_isr_us = now_us]), tg |-> st]
  ELSE IF state = m.last_isr_state
       THEN [mk |-> Observe(now_us, state, FALSE, [m EXCEPT !.last_isr_us = now_us]), tg |-> st]
  ELSE [mk |-> Observe(now_us, state, TRUE,
                       [m EXCEPT !.last_isr_us = now_us, !.last_isr_state = state,
                                 !.g_accAt = now_us]),
        tg |-> telegrapher_pushKeyEvent([down |-> state, t_us |-> now_us], st)]

\* morse_key_init(), called by setup() with the key up.
morse_key_init(t) ==
  [last_isr_us |-> t * 1000, last_isr_state |-> FALSE, g_pressAt |-> 0, g_pushed |-> 0,
   g_accAt |-> t * 1000]

(***************************************************************************)
(* PeerNegotiator (network-connect.cpp).  updateNetworkConnect takes the   *)
(* value t of millis(), what the WiFi and TCP library calls return during  *)
(* this call (the record e), and the statics st.  e.scan is the outcome    *)
(* of WiFi.scanComplete() or of the blocking WiFi.scanNetworks(): the scan *)
(* is still "running", it "failed", it completed with "none" of its        *)
(* networks carrying the identifier, or it "found" it.  e.wifi is          *)
(* WiFi.status() == WL_CONNECTED, e.selfIp is WiFi.localIP() == AP_IP,     *)
(* e.connect the result of client.connect(), e.tcp FALSE when the peer     *)
(* has closed the stream, e.accept whether server.available() hands over   *)
(* a new client, e.rx the complete lines readable from the stream, e.part  *)
(* the bytes readable after the last newline ("": none).  rxLineBuf holds  *)
(* the bytes of the line being assembled, always fewer than the buffer     *)
(* takes; g_stale is whether it holds bytes that were read before the      *)
(* present connection was made, g_leaks the lines this call completed      *)
(* from such bytes.                                                        *)
(*                                                                         *)
(* st.conn is client.connected() as the call left it, st.apOn whether      *)
(* WiFi.softAP() has been started.  st.sent lists the lines written to     *)
(* the stream and st.ev the callbacks invoked in this call, st.fwd the     *)
(* lines handed to morse_telecom_handleIncomingLine.  The fields g_* only  *)
(* observe: g_ended counts the scan attempts that ended without finding    *)
(* the identifier, g_connSince is the time NC_CONNECTING was entered,      *)
(* g_retries counts the retries out of NC_DISCONNECTED, g_retryDelay and   *)
(* g_prevRetryDelay are the delays the last two of them waited for,        *)
(* g_alives counts the "alive" lines received in this call.                *)
(* Lines are whole lines.  The outgoing queue is the ring outQueue with    *)
(* outHead, outTail and outCount; g_in lists the lines enqueued since      *)
(* initNetworkConnect, g_out the queued lines written to the stream,       *)
(* g_drop the lines removed by the drop-oldest branch, g_wrote the number  *)
(* of queued lines written in this call and g_full whether the last        *)
(* enqueue found the queue full.                                           *)
(***************************************************************************)
NC_SCANNING == "NC_SCANNING"
NC_CONNECTING == "NC_CONNECTING"
NC_CONNECTED == "NC_CONNECTED"
NC_AP_MODE == "NC_AP_MODE"
NC_DISCONNECTED == "NC_DISCONNECTED"
NC_State == {NC_SCANNING, NC_CONNECTING, NC_CONNECTED, NC_AP_MODE, NC_DISCONNECTED}

nc_isConnected(st) == st.state = NC_CONNECTED
nc_isActingClient(st) == st.actingAsClient

nc_getRole(st) ==
  IF st.state = NC_AP_MODE THEN "AP"
  ELSE IF st.state = NC_CONNECTED /\ st.actingAsClient THEN "CLIENT"
  ELSE IF st.state = NC_CONNECTED /\ ~st.actingAsClient THEN "PEER"
  ELSE "NONE"

Count(seq, x) == Len(SelectSeq(seq, LAMBDA y : y = x))

Send(st, line) == [st EXCEPT !.sent = Append(@, line)]
Call(st, cb) == [st EXCEPT !.ev = Append(@, cb)]

\* outq_push that refuses the new line when the queue is full.
outq_push_DropNewest(line, st) ==
  IF line = "" THEN st
  ELSE IF st.outCount >= OUTQ_SIZE
       THEN [st EXCEPT !.g_in = Append(@, line), !.g_drop = @ \cup {line}, !.g_full = TRUE]
  ELSE [st EXCEPT !.outQueue[st.outTail] = line,
                  !.outTail = (@ + 1) % OUTQ_SIZE,
                  !.outCount = @ + 1,
                  !.g_in = Append(@, line),
                  !.g_full = FALSE]

\* outq_push, which is all of nc_enqueueOutgoing (line 134).
outq_push(line, st) ==
  IF line = "" THEN st
  ELSE LET full == st.outCount >= OUTQ_SIZE
           s1 == IF full
                 THEN [st EXCEPT !.outHead = (@ + 1) % OUTQ_SIZE,
                                 !.outCount = @ - 1,
                                 !.g_drop = @ \cup {st.outQueue[st.outHead]}]
                 ELSE st
       IN  [s1 EXCEPT !.outQueue[s1.outTail] = line,
                      !.outTail = (@ + 1) % OUTQ_SIZE,
                      !.outCount = @ + 1,
                      !.g_in = Append(@, line),
                      !.g_full = full]

\* outq_send_one_if_connected: what it returns (ok) and the statics it leaves.
outq_send_one_if_connected(st) ==
  IF st.outCount = 0 THEN [ok |-> TRUE, st |-> st]
  ELSE IF ~st.conn THEN [ok |-> FALSE, st |-> st]
  ELSE [ok |-> TRUE,
        st |-> [Send(st, st.outQueue[st.outHead]) EXCEPT
                  !.outHead = (@ + 1) % OUTQ_SIZE,
                  !.outCount = @ - 1,
                  !.g_out = Append(@, st.outQueue[st.outHead]),
                  !.g_wrote = @ + 1]]

\* The flush without its loop: one line per call site.
flushOutgoing_Once(st) ==
  IF st.outCount > 0 THEN outq_send_one_if_connected(st).st ELSE st

\* The loop around it at each of its four call sites:
\* while (outCount > 0) { if (!outq_send_one_if_connected()) break; }
RECURSIVE flushOutgoing(_)
flushOutgoing(st) ==
  IF st.outCount > 0
  THEN LET r == outq_send_one_if_connected(st)
       IN  IF ~r.ok THEN r.st ELSE flushOutgoing(r.st)
  ELSE st

\* processClientIncoming that answers "alive" whatever the role.
RECURSIVE processClientIncoming_AckAlways(_, _, _)
processClientIncoming_AckAlways(t, rx, st) ==
  IF rx = <<>> THEN st
  ELSE LET line == st.rxLineBuf \o Head(rx)
           s0 == [st EXCEPT !.rxLineBuf = "", !.g_stale = FALSE,
                            !.g_leaks = IF st.g_stale THEN Append(@, line) ELSE @]
           s1 == IF line = "alive"
                 THEN Send([s0 EXCEPT !.lastHeartbeatReceived = t, !.g_alives = @ + 1],
                           "alive_ack")
                 ELSE IF line = "alive_ack"
                      THEN [s0 EXCEPT !.lastHeartbeatReceived = t]
                 ELSE [s0 EXCEPT !.fwd = Append(@, line)]
       IN  processClientIncoming_AckAlways(t, Tail(rx), s1)

\* processClientIncoming, for the lines rx readable from the stream: each is
\* the bytes up to a newline, and completes what rxLineBuf holds.
RECURSIVE processClientIncoming(_, _, _)
processClientIncoming(t, rx, st) ==
  IF rx = <<>> THEN st
  ELSE LET line == st.rxLineBuf \o Head(rx)
           s0 == [st EXCEPT !.rxLineBuf = "", !.g_stale = FALSE,
                            !.g_leaks = IF st.g_stale THEN Append(@, line) ELSE @]
           s1 == IF line = "alive"
                 THEN LET h == [s0 EXCEPT !.lastHeartbeatReceived = t, !.g_alives = @ + 1]
                      IN  IF ~h.actingAsClient THEN Send(h, "alive_ack") ELSE h
                 ELSE IF line = "alive_ack"
                      THEN [s0 EXCEPT !.lastHeartbeatReceived = t]
                 ELSE [s0 EXCEPT !.fwd = Append(@, line)]
       IN  processClientIncoming(t, Tail(rx), s1)

\* processClientIncoming, lines 199-201: the bytes readable after the last
\* newline stay in rxLineBuf.
readPartial(part, st) ==
  IF part = "" THEN st ELSE [st EXCEPT !.rxLineBuf = @ \o part]

tryAcceptClient(t, e, st) ==
  IF e.accept /\ ~st.conn
  THEN Call(Call(flushOutgoing([st EXCEPT !.conn = TRUE,
                                          !.g_stale = st.rxLineBuf # "",
                                          !.actingAsClient = FALSE,
                                          !.lastHeartbeatReceived = t,
                                          !.lastHeartbeatSent = t,
                                          !.state = NC_CONNECTED]),
                 "accepted"), "connected")
  ELSE st

\* dropClient that leaves actingAsClient set.
dropClient_KeepRole(t, st) ==
  LET s1 == [st EXCEPT !.conn = FALSE]
  IN  IF s1.actingAsClient
      THEN Call([s1 EXCEPT !.state = NC_CONNECTING,
                           !.connectStart = t,
                           !.g_connSince = t],
                "disconnected")
      ELSE Call([s1 EXCEPT !.state = NC_AP_MODE], "disconnected")

\* NC_CONNECTED, lines 333-345 and 359-371: the stream is closed and given up.
dropClient(t, st) ==
  LET s1 == [st EXCEPT !.conn = FALSE]
  IN  IF s1.actingAsClient
      THEN Call([s1 EXCEPT !.actingAsClient = FALSE,
                           !.state = NC_CONNECTING,
                           !.connectStart = t,
                           !.g_connSince = t],
                "disconnected")
      ELSE Call([s1 EXCEPT !.state = NC_AP_MODE], "disconnected")

caseScanning(t, e, st) ==
  IF t - st.lastScan < SCAN_INTERVAL_MS THEN st
  ELSE IF e.scan = "running"
       THEN IF t - st.lastScan > SCAN_TIMEOUT_MS
            THEN [st EXCEPT !.scanAttempts = @ + 1, !.lastScan = t, !.g_ended = @ + 1]
            ELSE st
  ELSE IF e.scan \in {"none", "found"} /\ st.scanAttempts <= MAX_SCAN_ATTEMPTS
       THEN IF e.scan = "found"
            THEN [st EXCEPT !.state = NC_CONNECTING, !.connectStart = t, !.g_connSince = t]
            ELSE LET s1 == [st EXCEPT !.scanAttempts = @ + 1, !.g_ended = @ + 1]
                 IN  IF s1.scanAttempts > MAX_SCAN_ATTEMPTS
                     THEN [s1 EXCEPT !.apOn = TRUE, !.state = NC_AP_MODE]
                     ELSE [s1 EXCEPT !.lastScan = t]
  ELSE [st EXCEPT !.lastScan = t]

caseConnecting(t, e, st) ==
  IF e.wifi
  THEN IF e.selfIp THEN [st EXCEPT !.state = NC_AP_MODE]
       ELSE IF t - st.connectStart >= CONNECT_RETRY_MS
            THEN IF e.connect
                 THEN Call(flushOutgoing([st EXCEPT !.conn = TRUE,
                                                    !.g_stale = st.rxLineBuf # "",
                                                    !.actingAsClient = TRUE,
                                                    !.state = NC_CONNECTED,
                                                    !.lastHeartbeatSent = t,
                                                    !.lastHeartbeatReceived = t]),
                           "connected")
                 ELSE [st EXCEPT !.conn = FALSE, !.connectStart = t]
            ELSE st
  ELSE IF t - st.connectStart > CONNECT_WIFI_TIMEOUT_MS
       THEN Call([st EXCEPT !.state = NC_DISCONNECTED], "disconnected")
       ELSE st

\* NC_CONNECTED whose heartbeat timeout is a strict comparison.
caseConnected_StrictTimeout(t, e, st) ==
  IF ~st.conn THEN dropClient(t, st)
  ELSE LET s1 == IF st.actingAsClient /\ t - st.lastHeartbeatSent >= HEARTBEAT_INTERVAL_MS
                 THEN [Send(st, "alive") EXCEPT !.lastHeartbeatSent = t]
                 ELSE st
       IN  IF t - s1.lastHeartbeatReceived > HEARTBEAT_TIMEOUT_MS
           THEN dropClient(t, s1)
           ELSE readPartial(e.part, processClientIncoming(t, e.rx, flushOutgoing(s1)))

caseConnected(t, e, st) ==
  IF ~st.conn THEN dropClient(t, st)
  ELSE LET s1 == IF st.actingAsClient /\ t - st.lastHeartbeatSent >= HEARTBEAT_INTERVAL_MS
                 THEN [Send(st, "alive") EXCEPT !.lastHeartbeatSent = t]
                 ELSE st
       IN  IF t - s1.lastHeartbeatReceived >= HEARTBEAT_TIMEOUT_MS
           THEN dropClient(t, s1)
           ELSE readPartial(e.part, processClientIncoming(t, e.rx, flushOutgoing(s1)))

\* NC_AP_MODE that keeps hosting when its re-scan finds the identifier.
caseApMode_NoAbandon(t, e, st) ==
  LET s1 == tryAcceptClient(t, e, st)
      s2 == IF s1.conn THEN readPartial(e.part, processClientIncoming(t, e.rx, flushOutgoing(s1))) ELSE s1
  IN  IF t - s2.lastScan > RescanMs THEN [s2 EXCEPT !.lastScan = t] ELSE s2

caseApMode(t, e, st) ==
  LET s1 == tryAcceptClient(t, e, st)
      s2 == IF s1.conn THEN readPartial(e.part, processClientIncoming(t, e.rx, flushOutgoing(s1))) ELSE s1
  IN  IF t - s2.lastScan > RescanMs
      THEN IF e.scan = "found"
           THEN [s2 EXCEPT !.lastScan = t,
                           !.state = NC_CONNECTING,
                           !.connectStart = t,
                           !.g_connSince = t]
           ELSE [s2 EXCEPT !.lastScan = t]
      ELSE s2

caseDisconnected(t, e, st) ==
  IF t - st.connectStart > CONNECT_RETRY_MS
  THEN [st EXCEPT !.state = NC_CONNECTING,
                  !.connectStart = t,
                  !.g_connSince = t,
                  !.g_retries = @ + 1,
                  !.g_prevRetryDelay = st.g_retryDelay,
                  !.g_retryDelay = CONNECT_RETRY_MS]
  ELSE st

\* The stream as the call finds it: closed once the peer has closed it.
Stream(e, st) == [st EXCEPT !.conn = @ /\ e.tcp]

updateNetworkConnect(t, e, st) ==
  LET s0 == Stream(e, st)
  IN  CASE s0.state = NC_SCANNING -> caseScanning(t, e, s0)
        [] s0.state = NC_CONNECTING -> caseConnecting(t, e, s0)
        [] s0.state = NC_CONNECTED -> caseConnected(t, e, s0)
        [] s0.state = NC_AP_MODE -> caseApMode(t, e, s0)
        [] s0.state = NC_DISCONNECTED -> caseDisconnected(t, e, s0)

\* initNetworkConnect(), called by setup() at millis() = BootMs.
initNetworkConnect(t) ==
  [state |-> NC_SCANNING, actingAsClient |-> FALSE,
   lastScan |-> t, scanAttempts |-> 1, connectStart |-> t,
   lastHeartbeatSent |-> t, lastHeartbeatReceived |-> t,
   conn |-> FALSE, apOn |-> FALSE,
   outQueue |-> [i \in 0..(OUTQ_SIZE - 1) |-> ""],
   outHead |-> 0, outTail |-> 0, outCount |-> 0,
   sent |-> <<>>, ev |-> <<>>, fwd |-> <<>>,
   g_in |-> <<>>, g_out |-> <<>>, g_drop |-> {}, g_wrote |-> 0, g_full |-> FALSE,
   g_ended |-> 0, g_connSince |-> t, g_retries |-> 0,
   g_retryDelay |-> 0, g_prevRetryDelay |-> 0, g_alives |-> 0,
   rxLineBuf |-> "", g_stale |-> FALSE, g_leaks |-> <<>>]

\* What the library calls may return to a call that finds the statics st.
NoEnv == [scan |-> "none", wifi |-> FALSE, selfIp |-> FALSE, connect |-> FALSE,
          tcp |-> TRUE, accept |-> FALSE, rx |-> <<>>, part |-> ""]

RxSet == {<<>>, <<"alive">>, <<"alive_ack">>, <<"alive", "DOWN", "alive">>}

\* Only what the call will read is varied: a scan result when the call polls or
\* runs a scan, the result of client.connect() when the call attempts it, the
\* lines of a stream that is open.
Env(t, st) ==
  CASE st.state = NC_SCANNING ->
         IF t - st.lastScan < SCAN_INTERVAL_MS THEN {NoEnv}
         ELSE {[NoEnv EXCEPT !.scan = sc] : sc \in {"running", "failed", "none", "found"}}
    [] st.state = NC_CONNECTING ->
         {[NoEnv EXCEPT !.wifi = w, !.selfIp = w /\ ip,
                        !.connect = /\ w /\ ~ip /\ c
                                    /\ t - st.connectStart >= CONNECT_RETRY_MS] :
            w \in BOOLEAN, ip \in BOOLEAN, c \in BOOLEAN}
    [] st.state = NC_CONNECTED ->
         {[NoEnv EXCEPT !.tcp = up, !.rx = IF up /\ st.conn THEN rx ELSE <<>>] :
            up \in BOOLEAN, rx \in RxSet}
    [] st.state = NC_AP_MODE ->
         {[NoEnv EXCEPT !.scan = IF t - st.lastScan > RescanMs THEN sc ELSE "none",
                        !.tcp = up \/ ~st.conn,
                        !.accept = a /\ ~(st.conn /\ up),
                        !.rx = IF (st.conn /\ up) \/ (~st.conn /\ a) THEN rx ELSE <<>>] :
            sc \in {"none", "found"}, up \in BOOLEAN, a \in BOOLEAN, rx \in RxSet}
    [] st.state = NC_DISCONNECTED -> {NoEnv}

NoNcCall == [op |-> "none", state |-> NC_SCANNING, acting |-> FALSE, conn |-> FALSE,
             e |-> NoEnv, lastScan |-> 0, hbIdle |-> 0, hbSentAgo |-> 0, queued |-> 0,
             attempts |-> 0]

NcEntry(e) ==
  [op |-> "update", state |-> nc.state, acting |-> nc.actingAsClient,
   conn |-> nc.conn /\ e.tcp, e |-> e, lastScan |-> now - nc.lastScan,
   hbIdle |-> now - nc.lastHeartbeatReceived, hbSentAgo |-> now - nc.lastHeartbeatSent,
   queued |-> nc.outCount, attempts |-> nc.scanAttempts]

NcFresh ==
  [nc EXCEPT !.sent = <<>>, !.ev = <<>>, !.fwd = <<>>, !.g_alives = 0, !.g_wrote = 0,
             !.g_leaks = <<>>]

(***************************************************************************)
(* Two endpoints against each other, on a network that works: a scan       *)
(* completes by the next poll and finds the identifier exactly when the    *)
(* other endpoint's softAP is up; a join succeeds exactly when that softAP *)
(* is up (the non-blocking scan polled in NC_SCANNING ran while the clock   *)
(* advanced, so it may also report what was on the air before: pr.seen);   *)
(* client.connect() succeeds once joined, because the other                *)
(* endpoint's server has been listening since its initNetworkConnect       *)
(* (line 121) and the TCP stack completes the handshake before the         *)
(* program calls server.available().                                       *)
(*                                                                         *)
(* pr.on[i]: endpoint i has been started.  pr.ep[i]: its statics.          *)
(* pr.strm[i]: the stream endpoint i opened with client.connect():         *)
(* "none", "pending" (not yet handed over by the other side's              *)
(* server.available()) or "claimed".  pr.cl[i]: what endpoint i's client   *)
(* object holds: "none", "out" (the stream it opened) or "in" (the stream  *)
(* it accepted).  pr.chan[i]: the lines endpoint i has written that the    *)
(* other side has not read.  pr.upd[i]: endpoint i has run                 *)
(* updateNetworkConnect since the clock last advanced.  pr.la[i]: the      *)
(* statics of endpoint i's LinkArbiter.  pr.boot[i]: the time at which     *)
(* endpoint i was powered, where its millis() is 0.  pr.wire[i]: the DOWN  *)
(* and UP lines endpoint i has sent that the other side has not decoded.   *)
(***************************************************************************)
Ends == {1, 2}
Peer(i) == 3 - i

InitPair ==
  [on |-> [i \in Ends |-> i = 1],
   ep |-> [i \in Ends |-> initNetworkConnect(BootMs)],
   strm |-> [i \in Ends |-> "none"],
   cl |-> [i \in Ends |-> "none"],
   chan |-> [i \in Ends |-> <<>>],
   upd |-> [i \in Ends |-> FALSE],
   seen |-> [i \in Ends |-> FALSE],
   la |-> [i \in Ends |-> initNetworkState(BootMs)],
   boot |-> [i \in Ends |-> 0],
   wire |-> [i \in Ends |-> <<>>]]

\* The identifier is on the air for endpoint i: the other endpoint's softAP is up.
OnAir(p, i) == p.on[Peer(i)] /\ p.ep[Peer(i)].apOn

\* Endpoint i's client object holds a stream whose other end is still open.
StreamOpen(p, i) ==
  CASE p.cl[i] = "out" -> p.strm[i] # "none"
    [] p.cl[i] = "in" -> p.strm[Peer(i)] # "none"
    [] OTHER -> TRUE

\* Endpoint i reads what the other endpoint wrote: they hold the two ends of one
\* stream, or the other endpoint's stream is about to be accepted by endpoint i.
Readable(p, i) ==
  \/ p.cl[i] = "out" /\ p.cl[Peer(i)] = "in" /\ p.strm[i] = "claimed"
  \/ p.cl[i] # "out" /\ p.cl[Peer(i)] = "out" /\ p.strm[Peer(i)] # "none"

PairEnv(p, i, onAir) ==
  [scan |-> IF onAir THEN "found" ELSE "none",
   wifi |-> OnAir(p, i),
   selfIp |-> FALSE,
   connect |-> OnAir(p, i),
   tcp |-> StreamOpen(p, i),
   accept |-> p.strm[Peer(i)] = "pending",
   rx |-> IF Readable(p, i) THEN p.chan[Peer(i)] ELSE <<>>,
   part |-> ""]

\* Endpoint i runs updateNetworkConnect at time t; the streams follow what the
\* call did with its client object.
PairUpdate(t, p, i, onAir) ==
  LET j == Peer(i)
      e == PairEnv(p, i, onAir)
      st == [p.ep[i] EXCEPT !.sent = <<>>, !.ev = <<>>, !.fwd = <<>>, !.g_alives = 0,
                            !.g_wrote = 0]
      s1 == updateNetworkConnect(t, e, st)
      accepted == Count(s1.ev, "accepted") > 0
      opened == Count(s1.ev, "connected") > 0 /\ ~accepted
      closed == st.conn /\ ~s1.conn
      cl1 == IF accepted THEN "in" ELSE IF opened THEN "out"
             ELSE IF closed THEN "none" ELSE p.cl[i]
      mine == IF opened THEN "pending"
              ELSE IF p.cl[i] = "out" /\ (closed \/ accepted) THEN "none"
              ELSE p.strm[i]
      theirs == IF accepted THEN "claimed"
                ELSE IF p.cl[i] = "in" /\ (closed \/ opened) THEN "none"
                ELSE p.strm[j]
      read == s1.conn /\ st.state \in {NC_CONNECTED, NC_AP_MODE} /\ ~opened
  IN  [p EXCEPT !.ep[i] = s1,
                !.cl[i] = cl1,
                !.strm = [k \in Ends |-> IF k = i THEN mine ELSE theirs],
                !.chan = [k \in Ends |->
                            IF k = i
                            THEN IF cl1 = "none" THEN <<>>
                                 ELSE (IF opened \/ accepted THEN <<>> ELSE p.chan[i]) \o s1.sent
                            ELSE IF read /\ Readable(p, i) THEN <<>> ELSE p.chan[j]],
                !.upd[i] = TRUE]

(***************************************************************************)
(* LineProtocol (morse-telecom.cpp).  A line is the sequence of its        *)
(* characters, without the terminating NUL.  morse_telecom_sendDown,       *)
(* _sendUp and _sendSymbol give the line they hand to nc_enqueueOutgoing   *)
(* (the empty sequence: none); morse_telecom_handleIncomingLine gives the  *)
(* callbacks it invokes, in order, each [e, sym, dur].  The durations      *)
(* explored stay below 2^31, where %lu and strtoul neither wrap nor        *)
(* saturate, and no line carries a minus sign after "dur:".                *)
(***************************************************************************)
DigitChar == <<"0", "1", "2", "3", "4", "5", "6", "7", "8", "9">>
L_alive == <<"a", "l", "i", "v", "e">>
L_alive_ack == <<"a", "l", "i", "v", "e", "_", "a", "c", "k">>
L_DOWN == <<"D", "O", "W", "N">>
L_UP == <<"U", "P">>
L_sym == <<"s", "y", "m", ":">>
L_r_sym == <<"r", "_", "s", "y", "m", ":">>
L_dur == <<"d", "u", "r", ":">>
L_src == <<";", "s", "r", "c", ":">>
LineBufSize == 64

\* printf's %lu.
RECURSIVE FmtLu(_)
FmtLu(n) ==
  IF n < 10 THEN <<DigitChar[n + 1]>>
  ELSE FmtLu(n \div 10) \o <<DigitChar[(n % 10) + 1]>>

\* snprintf(buf, size, ...): at most size - 1 characters are kept.
snprintf(size, str) == IF Len(str) > size - 1 THEN SubSeq(str, 1, size - 1) ELSE str

morse_telecom_sendDown == L_DOWN
morse_telecom_sendUp == L_UP

\* morse_telecom_sendSymbol with the duration formatted in seconds.
morse_telecom_sendSymbol_Seconds(sym, dur_ms) ==
  IF sym # "." /\ sym # "-" THEN <<>>
  ELSE snprintf(LineBufSize, L_sym \o <<sym>> \o <<";">> \o L_dur \o FmtLu(dur_ms \div 1000))

morse_telecom_sendSymbol(sym, dur_ms) ==
  IF sym # "." /\ sym # "-" THEN <<>>
  ELSE snprintf(LineBufSize, L_sym \o <<sym>> \o <<";">> \o L_dur \o FmtLu(dur_ms))

\* strncmp(line, pre, Len(pre)) == 0
strncmp0(line, pre) == Len(line) >= Len(pre) /\ SubSeq(line, 1, Len(pre)) = pre

\* strstr(line, pat): the index of the first occurrence of pat, 0 when there is none.
strstr(line, pat) ==
  LET at == {i \in 1..(Len(line) - Len(pat) + 1) : SubSeq(line, i, i + Len(pat) - 1) = pat}
  IN  IF at = {} THEN 0 ELSE CHOOSE i \in at : \A j \in at : i <= j

strchr(line, c) == strstr(line, <<c>>)

DigitVal(c) == CHOOSE d \in 0..9 : DigitChar[d + 1] = c
IsDigit(c) == \E d \in 0..9 : DigitChar[d + 1] = c

\* strtoul(s, NULL, 10), from index i on with acc read so far: it stops at the
\* first character that is not a digit.
RECURSIVE strtoulFrom(_, _, _)
strtoulFrom(s, i, acc) ==
  IF i > Len(s) \/ ~IsDigit(s[i]) THEN acc
  ELSE strtoulFrom(s, i + 1, acc * 10 + DigitVal(s[i]))

\* Its leading white space and optional plus sign.
RECURSIVE strtoul(_, _)
strtoul(s, i) ==
  IF i <= Len(s) /\ s[i] = " " THEN strtoul(s, i + 1)
  ELSE IF i <= Len(s) /\ s[i] = "+" THEN strtoulFrom(s, i + 1, 0)
  ELSE strtoulFrom(s, i, 0)

RemoteEv(e, sym, dur) == [e |-> e, sym |-> sym, dur |-> dur]

morse_telecom_handleIncomingLine(line) ==
  IF line = <<>> THEN <<>>
  ELSE IF line = L_alive THEN <<>>
  ELSE IF line = L_alive_ack THEN <<>>
  ELSE IF line = L_DOWN THEN <<RemoteEv("down", "", 0)>>
  ELSE IF line = L_UP THEN <<RemoteEv("up", "", 0)>>
  ELSE IF strncmp0(line, L_sym) \/ strncmp0(line, L_r_sym)
       THEN LET p == strchr(line, ":") + 1
                sym == IF p <= Len(line) THEN line[p] ELSE "NUL"
                durp == strstr(line, L_dur)
                dur == IF durp # 0 THEN strtoul(line, durp + 4) ELSE 0
            IN  <<RemoteEv("symbol", sym, dur)>>
  ELSE <<>>

\* main.cpp: the remote callbacks end in ns_notifyRemoteDown, ns_notifyRemoteUp
\* and ns_notifyRemoteSymbol.
RECURSIVE Deliver(_, _, _)
Deliver(evs, t, st) ==
  IF evs = <<>> THEN st
  ELSE LET ev == Head(evs)
           s1 == CASE ev.e = "down" -> ns_notifyRemoteDown(t, st)
                   [] ev.e = "up" -> ns_notifyRemoteUp(t, st)
                   [] ev.e = "symbol" -> ns_notifyRemoteSymbol(t, st)
       IN  Deliver(Tail(evs), t, s1)

\* mt.op: the last call ("none", "sendDown", "sendUp", "sendSymbol", "peer":
\* the other endpoint wrote a line, "recv": morse_telecom_handleIncomingLine).
\* mt.wire: a line is on its way; mt.line: that line; mt.ev: the callbacks of
\* the last "recv".  mt.from, mt.sym, mt.dur, mt.kind and mt.src remember how
\* the line was made: by which call, with which arguments, and for a line
\* of the other endpoint its message kind and the identifier after ";src:"
\* ("": no suffix).
NoLine == [op |-> "none", wire |-> FALSE, line |-> <<>>, ev |-> <<>>,
           from |-> "none", sym |-> "", dur |-> 0, kind |-> "", src |-> ""]

(***************************************************************************)
(* The ring alone.  q holds the four statics of the ring, and observes:    *)
(* q.in lists the stamps of the edges pushed, q.out those popped, in       *)
(* order; q.dropped is the set of stamps removed by the drop-oldest        *)
(* branch; q.raced is set when a push lands after tg_pop_event has read    *)
(* a non-zero count (line 164) and before it disables interrupts (165).    *)
(***************************************************************************)
InitRing ==
  [tg_q |-> [i \in 0..(TG_EVENT_Q_SZ - 1) |-> NoEvent],
   tg_q_head |-> 0, tg_q_tail |-> 0, tg_q_count |-> 0,
   mk_q |-> [i \in 0..(MK_EVENT_Q_SZ - 1) |-> NoEvent],
   mk_q_head |-> 0, mk_q_tail |-> 0, mk_q_count |-> 0, mk_dropped_events |-> 0,
   in |-> <<>>, out |-> <<>>, dropped |-> {}, raced |-> FALSE,
   g_last |-> [op |-> "none", ring |-> <<>>, dropped |-> 0]]

\* The key driver's own ring (morse-key.cpp): the enqueue at the end of the
\* interrupt handler, here without the increment of mk_dropped_events.
mk_enqueue_NoCount(ev, st) ==
  LET next_tail == (st.mk_q_tail + 1) % MK_EVENT_Q_SZ
      s1 == IF st.mk_q_count >= MK_EVENT_Q_SZ
            THEN [st EXCEPT !.mk_q_head = (@ + 1) % MK_EVENT_Q_SZ, !.mk_q_count = @ - 1]
            ELSE st
  IN  [s1 EXCEPT !.mk_q[st.mk_q_tail] = ev, !.mk_q_tail = next_tail, !.mk_q_count = @ + 1]

\* mk_isr_handler, lines 126-143.
mk_enqueue(ev, st) ==
  LET next_tail == (st.mk_q_tail + 1) % MK_EVENT_Q_SZ
      s1 == IF st.mk_q_count >= MK_EVENT_Q_SZ
            THEN [st EXCEPT !.mk_q_head = (@ + 1) % MK_EVENT_Q_SZ, !.mk_q_count = @ - 1,
                            !.mk_dropped_events = @ + 1]
            ELSE st
  IN  [s1 EXCEPT !.mk_q[st.mk_q_tail] = ev, !.mk_q_tail = next_tail, !.mk_q_count = @ + 1]

\* The stamps in the driver's ring, oldest first.
RECURSIVE MkRingFrom(_, _, _)
MkRingFrom(st, i, n) ==
  IF n = 0 THEN <<>>
  ELSE <<st.mk_q[i].t_us>> \o MkRingFrom(st, (i + 1) % MK_EVENT_Q_SZ, n - 1)

MkRing(st) == MkRingFrom(st, st.mk_q_head, st.mk_q_count)

\* The stamps in the ring, oldest first.
RECURSIVE RingFrom(_, _, _)
RingFrom(st, i, n) ==
  IF n = 0 THEN <<>>
  ELSE <<st.tg_q[i].t_us>> \o RingFrom(st, (i + 1) % TG_EVENT_Q_SZ, n - 1)

Ring(st) == RingFrom(st, st.tg_q_head, st.tg_q_count)

Init ==
  /\ now = BootMs
  /\ ticks = 0
  /\ ns = initNetworkState(BootMs)
  /\ nsCall = NoCall
  /\ pin = FALSE
  /\ mk = morse_key_init(BootMs)
  /\ tg = telegrapher_init(BootMs)
  /\ tgCall = "none"
  /\ q = InitRing
  /\ qPc = "idle"
  /\ nc = initNetworkConnect(BootMs)
  /\ ncCall = NoNcCall
  /\ pr = InitPair
  /\ mt = NoLine

NsTick ==
  /\ ticks < NsMaxTicks
  /\ \E d \in NsSteps : now' = now + d
  /\ ticks' = ticks + 1
  /\ ns' = Fresh
  /\ nsCall' = NoCall
  /\ UNCHANGED <<tgVars, qVars, ncVars>>

LocalDown ==
  /\ ns' = ns_requestLocalDown(now, Fresh)
  /\ nsCall' = Entry("localDown", 0)
  /\ UNCHANGED <<now, ticks, tgVars, qVars, ncVars>>

LocalUp ==
  /\ ns' = ns_requestLocalUp(now, Fresh)
  /\ nsCall' = Entry("localUp", now - ns.localPressAt)
  /\ UNCHANGED <<now, ticks, tgVars, qVars, ncVars>>

LocalSymbol ==
  /\ ns' = ns_requestLocalSymbol(now, Fresh)
  /\ nsCall' = Entry("localSymbol", 0)
  /\ UNCHANGED <<now, ticks, tgVars, qVars, ncVars>>

RemoteDown ==
  /\ ns' = ns_notifyRemoteDown(now, Fresh)
  /\ nsCall' = Entry("remoteDown", 0)
  /\ UNCHANGED <<now, ticks, tgVars, qVars, ncVars>>

RemoteUp ==
  /\ ns' = ns_notifyRemoteUp(now, Fresh)
  /\ nsCall' = Entry("remoteUp", now - ns.remotePressAt)
  /\ UNCHANGED <<now, ticks, tgVars, qVars, ncVars>>

RemoteSymbol ==
  /\ ns' = ns_notifyRemoteSymbol(now, Fresh)
  /\ nsCall' = Entry("remoteSymbol", 0)
  /\ UNCHANGED <<now, ticks, tgVars, qVars, ncVars>>

Poll ==
  /\ ns' = updateNetworkState(now, Fresh)
  /\ nsCall' = Entry("poll", 0)
  /\ UNCHANGED <<now, ticks, tgVars, qVars, ncVars>>

NsNext ==
  \/ NsTick
  \/ LocalDown
  \/ LocalUp
  \/ LocalSymbol
  \/ RemoteDown
  \/ RemoteUp
  \/ RemoteSymbol
  \/ Poll

Spec == Init /\ [][NsNext]_vars

(***************************************************************************)
(* LinkArbiter under a client whose callbacks call its transition          *)
(* functions.  The clock stands still during a top-level call.  A callback *)
(* returns, or calls one transition function and then returns; calls nest  *)
(* up to ReMaxNest deep.                                                   *)
(***************************************************************************)
ReIdle == ns.g_stack = <<>>
ReTop == ns.g_stack[Len(ns.g_stack)]

ReTick ==
  /\ ReIdle
  /\ ticks < ReMaxTicks
  /\ \E d \in ReSteps : now' = now + d
  /\ ticks' = ticks + 1
  /\ ns' = ReFresh
  /\ nsCall' = NoCall
  /\ UNCHANGED <<tgVars, qVars, ncVars>>

ReCall ==
  /\ ReIdle
  /\ \E fn \in NsFn \cup {"poll"} :
       /\ ns' = Enter(fn, ReFresh)
       /\ nsCall' = Entry(fn, 0)
  /\ UNCHANGED <<now, ticks, tgVars, qVars, ncVars>>

ReStep ==
  /\ ~ReIdle /\ ~ReTop.cb
  /\ ns' = Advance(now, ns)
  /\ UNCHANGED <<now, ticks, nsCall, tgVars, qVars, ncVars>>

ReCallbackReturns ==
  /\ ~ReIdle /\ ReTop.cb
  /\ ns' = [ns EXCEPT !.g_stack[Len(ns.g_stack)].cb = FALSE]
  /\ UNCHANGED <<now, ticks, nsCall, tgVars, qVars, ncVars>>

ReCallbackCalls ==
  /\ ~ReIdle /\ ReTop.cb
  /\ Len(ns.g_stack) <= ReMaxNest
  /\ \E fn \in NsFn :
       ns' = Enter(fn, [ns EXCEPT !.g_stack[Len(ns.g_stack)].cb = FALSE])
  /\ UNCHANGED <<now, ticks, nsCall, tgVars, qVars, ncVars>>

ReNext ==
  \/ ReTick
  \/ ReCall
  \/ ReStep
  \/ ReCallbackReturns
  \/ ReCallbackCalls

SpecRe == Init /\ [][ReNext]_vars

(***************************************************************************)
(* LinkArbiter under a clock that never stops.  The code reads millis()    *)
(* only in differences with the times it has stored and, in                *)
(* resolveContention, for its parity.  So a clock that advances by d is    *)
(* kept at BootMs or BootMs + 1, whichever has the parity of now + d, and  *)
(* the stored times are moved back by the rest; a stored time older than   *)
(* TieHorizon is kept at that age, which no comparison of the code tells   *)
(* from a larger one.                                                      *)
(***************************************************************************)
TieHorizon == 2 * STATE_ACTIVITY_TIMEOUT_MS + 2
TieSteps == {STATE_ACTIVITY_TIMEOUT_MS, STATE_ACTIVITY_TIMEOUT_MS + 1}

Rebase(t, back, st) ==
  LET at(x) == IF x - back < t - TieHorizon THEN t - TieHorizon ELSE x - back
  IN  [st EXCEPT !.lastActivityAt = at(@), !.localPressAt = at(@),
                 !.remotePressAt = at(@), !.lastObservedActivity = at(@)]

TieTick ==
  /\ \E d \in TieSteps :
       LET t == BootMs + ((now + d) % 2)
       IN  /\ now' = t
           /\ ns' = Rebase(t, now + d - t, Fresh)
  /\ nsCall' = NoCall
  /\ UNCHANGED <<ticks, tgVars, qVars, ncVars>>

TieNext ==
  \/ TieTick
  \/ LocalDown
  \/ LocalUp
  \/ LocalSymbol
  \/ RemoteDown
  \/ RemoteUp
  \/ RemoteSymbol
  \/ Poll

\* millis() keeps advancing.
SpecTie == Init /\ [][TieNext]_vars /\ WF_vars(TieTick)


(***************************************************************************)
(* Telegrapher actions: the clock, the key changing level (its interrupt   *)
(* pushes the edge, stamped micros()), and loop() calling                  *)
(* telegrapher_update.                                                     *)
(***************************************************************************)
TgTick ==
  /\ ticks < TgMaxTicks
  /\ \E d \in TgSteps : now' = now + d
  /\ ticks' = ticks + 1
  /\ tg' = TgFresh
  /\ tgCall' = "none"
  /\ UNCHANGED <<pin, mk, nsVars, qVars, ncVars>>

\* The key changes level and the CHANGE interrupt runs.
KeyChange ==
  /\ pin' = ~pin
  /\ LET r == mk_isr_handler(now * 1000, ~pin, mk, TgFresh)
     IN  mk' = r.mk /\ tg' = r.tg
  /\ tgCall' = "isr"
  /\ UNCHANGED <<now, ticks, nsVars, qVars, ncVars>>

Update ==
  /\ tg' = telegrapher_update(now, TgFresh)
  /\ tgCall' = "update"
  /\ UNCHANGED <<now, ticks, pin, mk, nsVars, qVars, ncVars>>

TgNext ==
  \/ TgTick
  \/ KeyChange
  \/ Update

SpecTg == Init /\ [][TgNext]_vars

(***************************************************************************)
(* The key with its bounces: as above, with a clock that also advances by  *)
(* less than ISR_DEBOUNCE_US between two transitions of the pin.           *)
(***************************************************************************)
KeyTick ==
  /\ ticks < KeyMaxTicks
  /\ \E d \in KeySteps : now' = now + d
  /\ ticks' = ticks + 1
  /\ tg' = TgFresh
  /\ tgCall' = "none"
  /\ UNCHANGED <<pin, mk, nsVars, qVars, ncVars>>

KeyNext ==
  \/ KeyTick
  \/ KeyChange
  \/ Update

SpecKey == Init /\ [][KeyNext]_vars

(***************************************************************************)
(* The ring between the interrupt and loop().  The interrupt runs to its   *)
(* end whenever interrupts are enabled: between any two steps of loop(),   *)
(* never inside lines 165-170 of tg_pop_event, and never inside another    *)
(* run of itself.  Edge k is stamped k and is a down edge when k is odd.   *)
(***************************************************************************)
otherVars == <<now, ticks, nsVars, tgVars, ncVars>>

\* The interrupt: telegrapher_pushKeyEvent, lines 111-129.
QPush ==
  /\ Len(q.in) < QMaxPush
  /\ LET k == Len(q.in) + 1
         full == q.tg_q_count >= TG_EVENT_Q_SZ
         s1 == telegrapher_pushKeyEvent([down |-> k % 2 = 1, t_us |-> k], q)
     IN  q' = [s1 EXCEPT !.in = Append(@, k),
                         !.dropped = IF full THEN @ \cup {q.tg_q[q.tg_q_head].t_us} ELSE @,
                         !.raced = @ \/ qPc = "lock"]
  /\ UNCHANGED <<qPc, otherVars>>

\* telegrapher_update enters its while loop (line 231).
QUpdate ==
  /\ qPc = "idle"
  /\ qPc' = "check"
  /\ UNCHANGED <<q, otherVars>>

\* tg_pop_event, line 164: the unprotected read of tg_q_count.
QCheck ==
  /\ qPc = "check"
  /\ qPc' = IF q.tg_q_count = 0 THEN "idle" ELSE "lock"
  /\ UNCHANGED <<q, otherVars>>

\* tg_pop_event, lines 165-171, with interrupts disabled; the edge popped is
\* processed and the loop calls tg_pop_event again.
QPop ==
  /\ qPc = "lock"
  /\ IF q.tg_q_count = 0
     THEN qPc' = "idle" /\ q' = q
     ELSE /\ q' = [tg_pop_event(q) EXCEPT !.out = Append(@, q.tg_q[q.tg_q_head].t_us)]
          /\ qPc' = "check"
  /\ UNCHANGED otherVars

QNext ==
  \/ QPush
  \/ QUpdate
  \/ QCheck
  \/ QPop

SpecQ == Init /\ [][QNext]_vars

(***************************************************************************)
(* The key driver's ring between the interrupt and morse_key_process().    *)
(* The interrupt hands the edge to Telegrapher and enqueues it in its own  *)
(* ring; loop() reports and resets the diagnostic counters, then pops the  *)
(* ring until it is empty.  q.g_last describes the last operation on the   *)
(* ring: a push with the ring and the counter it found, or a pop.          *)
(***************************************************************************)
\* mk_isr_handler, lines 119-143, for an accepted edge.
MqPush ==
  /\ Len(q.in) < QMaxPush
  /\ LET k == Len(q.in) + 1
         ev == [down |-> k % 2 = 1, t_us |-> k]
         s1 == mk_enqueue(ev, telegrapher_pushKeyEvent(ev, q))
     IN  q' = [s1 EXCEPT !.in = Append(@, k),
                         !.g_last = [op |-> "push", ring |-> MkRing(q),
                                     dropped |-> q.mk_dropped_events]]
  /\ UNCHANGED <<qPc, otherVars>>

\* morse_key_process, line 194: the test of the diagnostic counters; dup is
\* whether mk_duplicate_isr is non-zero.
MqProcess ==
  /\ qPc = "idle"
  /\ \E dup \in BOOLEAN :
       qPc' = IF q.mk_dropped_events # 0 \/ dup THEN "mk_report" ELSE "mk_check"
  /\ UNCHANGED <<q, otherVars>>

\* morse_key_process, lines 199-201: the counters are reset.
MqReport ==
  /\ qPc = "mk_report"
  /\ q' = [q EXCEPT !.mk_dropped_events = 0,
                    !.g_last = [op |-> "report", ring |-> <<>>, dropped |-> 0]]
  /\ qPc' = "mk_check"
  /\ UNCHANGED otherVars

\* morse_key_process, line 206: the unprotected read of mk_q_count.
MqCheck ==
  /\ qPc = "mk_check"
  /\ qPc' = IF q.mk_q_count = 0 THEN "idle" ELSE "mk_lock"
  /\ UNCHANGED <<q, otherVars>>

\* morse_key_process, lines 208-216, with interrupts disabled.
MqPop ==
  /\ qPc = "mk_lock"
  /\ IF q.mk_q_count = 0
     THEN qPc' = "idle" /\ q' = q
     ELSE /\ q' = [q EXCEPT !.mk_q_head = (@ + 1) % MK_EVENT_Q_SZ, !.mk_q_count = @ - 1,
                            !.out = Append(@, q.mk_q[q.mk_q_head].t_us),
                            !.g_last = [op |-> "pop", ring |-> <<>>, dropped |-> 0]]
          /\ qPc' = "mk_check"
  /\ UNCHANGED otherVars

MqNext ==
  \/ MqPush
  \/ MqProcess
  \/ MqReport
  \/ MqCheck
  \/ MqPop

SpecMq == Init /\ [][MqNext]_vars

(***************************************************************************)
(* PeerNegotiator actions: the clock, and loop() calling                   *)
(* updateNetworkConnect with whatever the libraries may return.            *)
(***************************************************************************)
ncOther == <<nsVars, tgVars, qVars, pr, mt>>

NcTick ==
  /\ ticks < NcMaxTicks
  /\ \E d \in NcSteps : now' = now + d
  /\ ticks' = ticks + 1
  /\ nc' = NcFresh
  /\ ncCall' = NoNcCall
  /\ UNCHANGED ncOther

NcUpdate ==
  /\ \E e \in Env(now, nc) :
       /\ nc' = updateNetworkConnect(now, e, NcFresh)
       /\ ncCall' = NcEntry(e)
  /\ UNCHANGED <<now, ticks, ncOther>>

NcNext ==
  \/ NcTick
  \/ NcUpdate

SpecNc == Init /\ [][NcNext]_vars

(***************************************************************************)
(* The stream read in pieces: a call may find the beginning of a line      *)
(* without its newline; the pieces of a line stay shorter than rxLineBuf.  *)
(***************************************************************************)
RxParts == {"", "DO"}

RxEnv(t, st) ==
  UNION {{[e EXCEPT !.part = p] :
            p \in IF ((st.conn /\ e.tcp) \/ e.accept) /\ Len(st.rxLineBuf) + 2 <= RxMaxLine
                   THEN RxParts ELSE {""}} :
         e \in {x \in Env(t, st) : x.rx \in {<<>>, <<"alive">>} /\ x.scan # "running"}}

RxTick ==
  /\ ticks < RxMaxTicks
  /\ \E d \in NcSteps : now' = now + d
  /\ ticks' = ticks + 1
  /\ nc' = NcFresh
  /\ ncCall' = NoNcCall
  /\ UNCHANGED ncOther

RxUpdate ==
  /\ \E e \in RxEnv(now, nc) :
       /\ nc' = updateNetworkConnect(now, e, NcFresh)
       /\ ncCall' = NcEntry(e)
  /\ UNCHANGED <<now, ticks, ncOther>>

RxNext ==
  \/ RxTick
  \/ RxUpdate

SpecRx == Init /\ [][RxNext]_vars

(***************************************************************************)
(* The outgoing queue: LineProtocol enqueues lines between the calls of    *)
(* updateNetworkConnect, which flushes the queue when a stream is open.    *)
(* The k-th line enqueued in a run is OqLines[k], so that every line in    *)
(* the queue is told from every other.                                     *)
(***************************************************************************)
\* The lines in the queue, oldest first.
RECURSIVE OutqFrom(_, _, _)
OutqFrom(st, i, n) ==
  IF n = 0 THEN <<>>
  ELSE <<st.outQueue[i]>> \o OutqFrom(st, (i + 1) % OUTQ_SIZE, n - 1)

Outq(st) == OutqFrom(st, st.outHead, st.outCount)

OqLines == <<"DOWN", "sym:.;dur:120", "UP", "sym:-;dur:300", "sym:.;dur:80", "sym:-;dur:450">>

OqTick ==
  /\ ticks < OqMaxTicks
  /\ \E d \in OqSteps : now' = now + d
  /\ ticks' = ticks + 1
  /\ nc' = NcFresh
  /\ ncCall' = NoNcCall
  /\ UNCHANGED ncOther

\* nc_enqueueOutgoing, called by morse_telecom_sendDown, _sendUp or _sendSymbol.
OqEnqueue ==
  /\ Len(nc.g_in) < OqMaxPush
  /\ Len(nc.g_in) < Len(OqLines)
  /\ nc' = outq_push(OqLines[Len(nc.g_in) + 1], NcFresh)
  /\ ncCall' = [NoNcCall EXCEPT !.op = "enqueue", !.state = nc.state, !.conn = nc.conn,
                                !.queued = nc.outCount]
  /\ UNCHANGED <<now, ticks, ncOther>>

\* What the stream delivers while the queue is watched: nothing, or the peer's
\* heartbeat token, which keeps the connection alive.
OqEnv(t, st) == {e \in Env(t, st) : e.rx \in {<<>>, <<"alive_ack">>}}

OqUpdate ==
  /\ \E e \in OqEnv(now, nc) :
       /\ nc' = updateNetworkConnect(now, e, NcFresh)
       /\ ncCall' = NcEntry(e)
  /\ UNCHANGED <<now, ticks, ncOther>>

OqNext ==
  \/ OqTick
  \/ OqEnqueue
  \/ OqUpdate

SpecOq == Init /\ [][OqNext]_vars

(***************************************************************************)
(* The pair.  Endpoint 1 is started at BootMs, endpoint 2 at the same time *)
(* or at any later time.  Each loop() runs far more often than the clock   *)
(* of the model advances: the clock advances only when every started       *)
(* endpoint has run updateNetworkConnect since it last did.                *)
(***************************************************************************)
prOther == <<nsVars, tgVars, qVars, nc, ncCall, mt>>

PrTick ==
  /\ ticks < PrMaxTicks
  /\ \A i \in Ends : pr.on[i] => pr.upd[i]
  /\ \E d \in NcSteps : now' = now + d
  /\ ticks' = ticks + 1
  /\ pr' = [pr EXCEPT !.upd = [i \in Ends |-> FALSE],
                      !.seen = [i \in Ends |-> OnAir(pr, i)]]
  /\ UNCHANGED prOther

\* setup() of endpoint 2: initNetworkConnect.
PrStart ==
  /\ ~pr.on[2]
  /\ pr' = [pr EXCEPT !.on[2] = TRUE,
                      !.ep[2] = initNetworkConnect(now),
                      !.seen[2] = OnAir(pr, 2)]
  /\ UNCHANGED <<now, ticks, prOther>>

PrUpdate ==
  /\ \E i \in Ends :
       /\ pr.on[i]
       /\ \E onAir \in IF pr.ep[i].state = NC_SCANNING
                        THEN {pr.seen[i], OnAir(pr, i)} ELSE {OnAir(pr, i)} :
            pr' = PairUpdate(now, pr, i, onAir)
  /\ UNCHANGED <<now, ticks, prOther>>

PrNext ==
  \/ PrTick
  \/ PrStart
  \/ PrUpdate

SpecPair == Init /\ [][PrNext]_vars

(***************************************************************************)
(* Two connected endpoints and their LinkArbiters.  Each endpoint reads    *)
(* its own millis(); endpoint 2 is powered at any time.  A key going down  *)
(* or up reaches onTelegrapherLocalDown or onTelegrapherLocalUp, which     *)
(* calls the LinkArbiter and sends the line; a line that arrives reaches   *)
(* onTelegrapherRemoteDown or onTelegrapherRemoteUp.  The connection       *)
(* delivers every line, in order.                                          *)
(***************************************************************************)
Millis(p, i) == now - p.boot[i]

LaFresh(p, i) == [p.la[i] EXCEPT !.trace = <<>>, !.cbs = <<>>, !.sends = <<>>]

LnTick ==
  /\ ticks < LnMaxTicks
  /\ \E d \in LnSteps : now' = now + d
  /\ ticks' = ticks + 1
  /\ UNCHANGED <<pr, prOther>>

\* setup() of endpoint 2: initNetworkState.
LnStart ==
  /\ ~pr.on[2]
  /\ pr' = [pr EXCEPT !.on[2] = TRUE, !.boot[2] = now - BootMs,
                      !.la[2] = initNetworkState(BootMs)]
  /\ UNCHANGED <<now, ticks, prOther>>

\* onTelegrapherLocalDown.
LnKeyDown ==
  /\ \E i \in Ends :
       /\ pr.on[1] /\ pr.on[2]
       /\ ~pr.la[i].localPressed
       /\ Len(pr.wire[i]) < LnMaxWire
       /\ pr' = [pr EXCEPT !.la[i] = ns_requestLocalDown(Millis(pr, i), LaFresh(pr, i)),
                           !.wire[i] = Append(@, "DOWN")]
  /\ UNCHANGED <<now, ticks, prOther>>

\* onTelegrapherLocalUp.
LnKeyUp ==
  /\ \E i \in Ends :
       /\ pr.la[i].localPressed
       /\ Len(pr.wire[i]) < LnMaxWire
       /\ pr' = [pr EXCEPT !.la[i] = ns_requestLocalUp(Millis(pr, i), LaFresh(pr, i)),
                           !.wire[i] = Append(@, "UP")]
  /\ UNCHANGED <<now, ticks, prOther>>

\* Endpoint i decodes the next line of the other endpoint:
\* onTelegrapherRemoteDown or onTelegrapherRemoteUp.
LnDeliver ==
  /\ \E i \in Ends :
       /\ pr.wire[Peer(i)] # <<>>
       /\ pr' = [pr EXCEPT !.la[i] = IF Head(pr.wire[Peer(i)]) = "DOWN"
                                     THEN ns_notifyRemoteDown(Millis(pr, i), LaFresh(pr, i))
                                     ELSE ns_notifyRemoteUp(Millis(pr, i), LaFresh(pr, i)),
                           !.wire[Peer(i)] = Tail(@)]
  /\ UNCHANGED <<now, ticks, prOther>>

\* loop() of endpoint i: updateNetworkState.
LnPoll ==
  /\ \E i \in Ends :
       /\ pr.on[i]
       /\ pr' = [pr EXCEPT !.la[i] = updateNetworkState(Millis(pr, i), LaFresh(pr, i))]
  /\ UNCHANGED <<now, ticks, prOther>>

LnNext ==
  \/ LnTick
  \/ LnStart
  \/ LnKeyDown
  \/ LnKeyUp
  \/ LnDeliver
  \/ LnPoll

SpecLine == Init /\ [][LnNext]_vars

(***************************************************************************)
(* LineProtocol actions.  This endpoint encodes a line, or the other       *)
(* endpoint writes one, with or without the ";src:<id>" suffix of the wire *)
(* protocol; the line then arrives and morse_telecom_handleIncomingLine    *)
(* decodes it, its callbacks reaching the LinkArbiter.  The code gives an  *)
(* endpoint no identifier: SelfId stands for the one this endpoint would   *)
(* carry, PeerId for the other endpoint's.                                 *)
(***************************************************************************)
SelfId == "A"
PeerId == "B"
MtSyms == {".", "-", "x"}
MtDurs == {0, 9, 10, 120, 65535, 1000000}
MtMaxTicks == 2
MtSteps == {STATE_MIN_RX_MS}
mtOther == <<tgVars, qVars, nc, ncCall, pr>>

\* A line of the wire protocol, as the other endpoint may write it.
WireLine(kind, sym, dur, id) ==
  LET base == CASE kind = "down" -> L_DOWN
                [] kind = "up" -> L_UP
                [] kind = "symbol" -> L_sym \o <<sym>> \o <<";">> \o L_dur \o FmtLu(dur)
  IN  IF id = "" THEN base ELSE base \o L_src \o <<id>>

\* Other lines the stream may carry: empty, heartbeat tokens handed on, the
\* relayed form "r_sym:", a truncated line, a symbol that is neither dot nor
\* dash, white space after "dur:", an unknown message.
MtOddLines ==
  {<<>>, L_alive, L_alive_ack, L_sym,
   L_sym \o <<"x">> \o <<";">> \o L_dur \o FmtLu(10),
   L_r_sym \o <<"-">> \o <<";">> \o L_dur \o FmtLu(300),
   L_sym \o <<".">> \o <<";">> \o L_dur \o <<" ", "+">> \o FmtLu(80),
   <<"m", "a", "c", ":", "0", "1">>}

MtTick ==
  /\ ticks < MtMaxTicks
  /\ \E d \in MtSteps : now' = now + d
  /\ ticks' = ticks + 1
  /\ ns' = Fresh
  /\ nsCall' = NoCall
  /\ UNCHANGED <<mt, mtOther>>

MtSendDown ==
  /\ mt' = [NoLine EXCEPT !.op = "sendDown", !.from = "sendDown", !.wire = TRUE,
                          !.line = morse_telecom_sendDown]
  /\ UNCHANGED <<now, ticks, nsVars, mtOther>>

MtSendUp ==
  /\ mt' = [NoLine EXCEPT !.op = "sendUp", !.from = "sendUp", !.wire = TRUE,
                          !.line = morse_telecom_sendUp]
  /\ UNCHANGED <<now, ticks, nsVars, mtOther>>

MtSendSymbol ==
  /\ \E s \in MtSyms : \E n \in MtDurs :
       LET line == morse_telecom_sendSymbol(s, n)
       IN  mt' = [NoLine EXCEPT !.op = "sendSymbol", !.from = "sendSymbol",
                                !.wire = line # <<>>, !.line = line,
                                !.sym = s, !.dur = n]
  /\ UNCHANGED <<now, ticks, nsVars, mtOther>>

\* The other endpoint writes a line.
MtPeer ==
  /\ \/ \E kind \in {"down", "up"} : \E id \in {"", SelfId, PeerId} :
          mt' = [NoLine EXCEPT !.op = "peer", !.from = "peer", !.wire = TRUE,
                               !.line = WireLine(kind, "", 0, id),
                               !.kind = kind, !.src = id]
     \/ \E s \in {".", "-"} : \E n \in MtDurs : \E id \in {"", SelfId, PeerId} :
          mt' = [NoLine EXCEPT !.op = "peer", !.from = "peer", !.wire = TRUE,
                               !.line = WireLine("symbol", s, n, id),
                               !.kind = "symbol", !.src = id, !.sym = s, !.dur = n]
     \/ \E line \in MtOddLines :
          mt' = [NoLine EXCEPT !.op = "peer", !.from = "peer", !.wire = TRUE,
                               !.line = line, !.kind = "other"]
  /\ UNCHANGED <<now, ticks, nsVars, mtOther>>

\* The line arrives: morse_telecom_handleIncomingLine and the callbacks it invokes.
MtReceive ==
  /\ mt.wire
  /\ LET ev == morse_telecom_handleIncomingLine(mt.line)
     IN  /\ mt' = [mt EXCEPT !.op = "recv", !.wire = FALSE, !.ev = ev]
         /\ ns' = Deliver(ev, now, Fresh)
  /\ nsCall' = Entry("recv", 0)
  /\ UNCHANGED <<now, ticks, mtOther>>

MtNext ==
  \/ MtTick
  \/ MtSendDown
  \/ MtSendUp
  \/ MtSendSymbol
  \/ MtPeer
  \/ MtReceive

SpecMt == Init /\ [][MtNext]_vars

(***************************************************************************)
(* LinkArbiter claims.  Every state of Spec is a state between two calls:  *)
(* nsCall describes what the last call found, ns what it left, ns.trace    *)
(* and ns.cbs what it did on the way.                                      *)
(***************************************************************************)
Called(op) == nsCall.op = op

\* C1: when an entry point returns, the link state is FREE, TX or RX, never
\* CONTENTION; a down event that makes both sides pressed passes through
\* CONTENTION and is resolved to TX or RX inside the same call.
C1_NoContentionAtReturn ==
  /\ ns.currentState \in {FREE, TX, RX}
  /\ (/\ nsCall.op \in {"localDown", "remoteDown"}
      /\ ns.localPressed /\ ns.remotePressed
      /\ ~(nsCall.localPressed /\ nsCall.remotePressed))
     => /\ Len(ns.trace) = 2
        /\ ns.trace[1] = CONTENTION
        /\ ns.trace[2] \in {TX, RX}
        /\ ns.trace[2] = ns.currentState

C1_Witness ==
  /\ Called("localDown")
  /\ nsCall.state = RX
  /\ ns.trace = <<CONTENTION, RX>>

\* C2: a down event from one side while neither side is pressed gives the line
\* to that side: local down leaves TX, remote down leaves RX, whatever the
\* state was before.
C2_DownTakesLine ==
  /\ (Called("localDown") /\ ~nsCall.localPressed /\ ~nsCall.remotePressed)
       => ns.currentState = TX
  /\ (Called("remoteDown") /\ ~nsCall.localPressed /\ ~nsCall.remotePressed)
       => ns.currentState = RX

C2_Witness ==
  /\ Called("remoteDown")
  /\ nsCall.state = TX /\ ~nsCall.localPressed /\ ~nsCall.remotePressed
  /\ ns.currentState = RX

C4_Original ==
  (Called("remoteUp") /\ nsCall.state = RX /\ nsCall.remotePressed /\ ~nsCall.localPressed)
    => ns.currentState = FREE

\* C4 amended: ns_notifyRemoteUp in state RX with remote pressed and local not
\* pressed changes the state to FREE within the call when the remote press lasted
\* at least STATE_MIN_RX_MS; a shorter press is treated as a glitch and the call
\* leaves the state RX.
C4_RemoteUpFrees ==
  (Called("remoteUp") /\ nsCall.state = RX /\ nsCall.remotePressed /\ ~nsCall.localPressed)
    => /\ nsCall.dur >= STATE_MIN_RX_MS => ns.currentState = FREE
       /\ nsCall.dur < STATE_MIN_RX_MS => ns.currentState = RX

C4_Witness ==
  /\ Called("remoteUp")
  /\ nsCall.state = RX /\ nsCall.remotePressed /\ ~nsCall.localPressed
  /\ nsCall.dur = STATE_MIN_RX_MS
  /\ ns.currentState = FREE

\* C5: a poll of updateNetworkState that finds the state not FREE and no activity
\* for STATE_ACTIVITY_TIMEOUT_MS leaves the state FREE, also when a pressed flag
\* is still set.
C5_TimeoutFrees ==
  (Called("poll") /\ nsCall.state # FREE /\ nsCall.idle >= STATE_ACTIVITY_TIMEOUT_MS)
    => ns.currentState = FREE

\* C6: the state-change callback is invoked once for each change of the state
\* value, with the new value, and not otherwise: the callbacks of a call are
\* the values assigned to currentState, each differs from the value before it,
\* the last one is the state the call leaves, and a duplicate down or up, a
\* symbol notification and a poll before the timeout invoke none.
C6_Chain == <<nsCall.state>> \o ns.cbs

C6_CallbackPerChange ==
  ~Called("none") =>
    /\ ns.cbs = ns.trace
    /\ \A i \in 1..Len(ns.cbs) : C6_Chain[i] # C6_Chain[i + 1]
    /\ C6_Chain[Len(C6_Chain)] = ns.currentState
    /\ (Called("localDown") /\ nsCall.localPressed) => ns.cbs = <<>>
    /\ (Called("localUp") /\ ~nsCall.localPressed) => ns.cbs = <<>>
    /\ (Called("remoteDown") /\ nsCall.remotePressed) => ns.cbs = <<>>
    /\ (Called("remoteUp") /\ ~nsCall.remotePressed) => ns.cbs = <<>>
    /\ nsCall.op \in {"localSymbol", "remoteSymbol"} => ns.cbs = <<>>
    /\ (Called("poll") /\ nsCall.idle < STATE_ACTIVITY_TIMEOUT_MS) => ns.cbs = <<>>

C6_Witness ==
  /\ Called("remoteDown")
  /\ nsCall.state = TX
  /\ ns.cbs = <<CONTENTION, TX>>

\* C36: every cb_localDown is followed, at the ns_requestLocalUp that ends the
\* press, by exactly one cb_localUp, whatever the duration of the press.
C36_SendUpPerSendDown ==
  /\ (nsCall.op = "localDown" /\ ~nsCall.localPressed) => ns.sends = <<"down">>
  /\ (nsCall.op = "localUp" /\ nsCall.localPressed) => ns.sends = <<"up">>

\* C38: when no LinkArbiter function is executing, state FREE implies that
\* neither pressed flag is set: while either side is pressed the state is TX
\* or RX.
C38_FreeMeansIdle ==
  (ns.localPressed \/ ns.remotePressed) => ns.currentState \in {TX, RX}

\* A glitch release of the local key left the state TX while the remote side
\* is pressed.
C38_Witness ==
  /\ nsCall.op = "localUp" /\ nsCall.localPressed /\ nsCall.dur < STATE_MIN_TX_MS
  /\ ns.remotePressed /\ ~ns.localPressed
  /\ ns.currentState = TX

\* C24 as claimed: ns_requestLocalUp with remote pressed leaves the state RX, and
\* ns_notifyRemoteUp in state RX with local pressed leaves the state TX, for
\* every press duration.
C24_Original ==
  /\ (Called("localUp") /\ nsCall.localPressed /\ nsCall.remotePressed)
       => ns.currentState = RX
  /\ (Called("remoteUp") /\ nsCall.state = RX /\ nsCall.remotePressed /\ nsCall.localPressed)
       => ns.currentState = TX

\* C24 amended: ns_requestLocalUp with remote pressed leaves the state RX when
\* the local press lasted at least STATE_MIN_TX_MS, and ns_notifyRemoteUp in
\* state RX with local pressed leaves the state TX when the remote press lasted
\* at least STATE_MIN_RX_MS, whichever side won the earlier contention; a
\* shorter press is treated as a glitch and the call leaves the state as it was
\* (also TX with only the remote side pressed).
C24_Handover ==
  /\ (Called("localUp") /\ nsCall.localPressed /\ nsCall.remotePressed)
       => /\ nsCall.state \in {TX, RX}
          /\ nsCall.dur >= STATE_MIN_TX_MS => ns.currentState = RX
          /\ nsCall.dur < STATE_MIN_TX_MS => ns.currentState = nsCall.state
  /\ (Called("remoteUp") /\ nsCall.state = RX /\ nsCall.remotePressed /\ nsCall.localPressed)
       => /\ nsCall.dur >= STATE_MIN_RX_MS => ns.currentState = TX
          /\ nsCall.dur < STATE_MIN_RX_MS => ns.currentState = RX

\* Local had won the contention and releases after a real press: the line goes
\* to the remote side.
C24_Witness ==
  /\ Called("localUp")
  /\ nsCall.state = TX /\ nsCall.localPressed /\ nsCall.remotePressed
  /\ nsCall.dur >= STATE_MIN_TX_MS
  /\ ns.currentState = RX
  /\ ns.cbs = <<RX>>

(***************************************************************************)
(* Telegrapher claims, on the states of SpecTg.  After telegrapher_update  *)
(* (tgCall = "update") tg.ev lists what the call did.                      *)
(***************************************************************************)
Updated == tgCall = "update"
EvIdx == 1..Len(tg.ev)
Is(i, e) == i \in EvIdx /\ tg.ev[i].e = e
Symbols(buf) == SelectSeq(buf, LAMBDA c : c # " ")
DotOrDash(d) == IF d <= DOT_MAX_MS THEN "." ELSE "-"

\* C7 as claimed: every release processed while pressed and not consumed by a
\* long-press emits exactly one symbol, Dot for every duration d <= DOT_MAX
\* (all d >= 0) and Dash for every d > DOT_MAX.
C7_Original ==
  \A i \in EvIdx :
    (Is(i, "release") /\ tg.ev[i].lp = 0)
      => /\ Is(i + 1, "symbol")
         /\ tg.ev[i + 1].sym = DotOrDash(tg.ev[i].dur)
         /\ Is(i + 2, "up")

\* C7 amended: every release processed while pressed, not consumed by a
\* long-press and with duration d >= MIN_DOWN_MS emits exactly one symbol,
\* LocalSymbol(sym, d) with sym Dot for d <= DOT_MAX and Dash for d > DOT_MAX,
\* with no upper bound on Dash; a release with d < MIN_DOWN_MS is rejected as a
\* bounce and emits no symbol.  No symbol is emitted otherwise.
C7_Classification ==
  \A i \in EvIdx :
    /\ (Is(i, "release") /\ tg.ev[i].lp = 0 /\ tg.ev[i].dur >= MIN_DOWN_MS)
         => /\ Is(i + 1, "symbol")
            /\ tg.ev[i + 1].sym = DotOrDash(tg.ev[i].dur)
            /\ tg.ev[i + 1].dur = tg.ev[i].dur
            /\ Is(i + 2, "up")
    /\ (Is(i, "release") /\ tg.ev[i].dur < MIN_DOWN_MS) => Is(i + 1, "up")
    /\ Is(i, "symbol") => Is(i - 1, "release")

C7_Witness ==
  \E i \in EvIdx : /\ Is(i, "symbol") /\ tg.ev[i].sym = "." /\ tg.ev[i].dur = DOT_MAX_MS

\* C8: after a release, Finalize fires at the first telegrapher_update at which
\* the key is up and at least LETTER_GAP_MS has passed since the last release,
\* not earlier, and not again before a new release.
C8_FinalizeOnce ==
  /\ tg.g_fin <= 1
  /\ Updated =>
       /\ (~tg.local_state_down /\ tg.g_relAt >= 0 /\ now - tg.g_relAt >= LETTER_GAP_MS)
            => tg.g_fin = 1
       /\ \A i \in EvIdx :
            Is(i, "finalize") => (~tg.local_state_down /\ tg.ev[i].dur >= LETTER_GAP_MS)
       /\ (tg.g_fin = 1 /\ ~\E i \in EvIdx : Is(i, "finalize"))
            => (now - tg.g_relAt >= LETTER_GAP_MS)

\* A later update in the same silence: Finalize has fired and does not fire again.
C8_Witness ==
  /\ Updated
  /\ ~tg.local_state_down
  /\ tg.g_fin = 1
  /\ tg.ev = <<>>

\* C9 as claimed: a press held for at least LONG_PRESS_MS has fired LongPress
\* exactly once, at any time after initialisation.
C9_Original ==
  (Updated /\ tg.local_state_down /\ now - tg.last_local_down_ms >= LONG_PRESS_MS)
    => tg.g_lp = 1

\* C9 amended: LongPress fires exactly once during a press, at the first
\* telegrapher_update at which the key is down, the press has lasted at least
\* LONG_PRESS_MS and more than 5000 ms have passed since telegrapher_init; the
\* release of that press emits no symbol and the next press is classified
\* normally.  A press released before such an update (in particular a long
\* press within the first 5000 ms) fires no LongPress and is classified.
C9_LongPressOnce ==
  /\ tg.g_lp <= 1
  /\ Updated =>
       /\ (/\ tg.local_state_down
           /\ now - tg.last_local_down_ms >= LONG_PRESS_MS
           /\ now - tg.boot_ms > BootGuardMs) => tg.g_lp = 1
       /\ \A i \in EvIdx :
            /\ Is(i, "longpress")
                 => /\ tg.local_state_down
                    /\ tg.ev[i].dur >= LONG_PRESS_MS
                    /\ now - tg.boot_ms > BootGuardMs
            /\ (Is(i, "release") /\ tg.ev[i].lp = 1) => Is(i + 1, "up")
            /\ (Is(i, "release") /\ tg.ev[i].lp = 0 /\ tg.ev[i].dur >= MIN_DOWN_MS)
                 => Is(i + 1, "symbol")

\* The press after a long press is classified.
C9_Witness ==
  \E i \in EvIdx :
    /\ Is(i, "release") /\ tg.ev[i].lp = 0 /\ tg.ev[i].prevLp = 1
    /\ Is(i + 1, "symbol")

\* C10: the letter buffer holds, in press order, every symbol classified since
\* the previous Finalize, at every moment and when Finalize fires; a further
\* press never removes symbols from it.
C10_LetterComplete ==
  /\ Symbols(tg.letter_buf) = tg.g_syms
  /\ \A i \in EvIdx : Is(i, "finalize") => Symbols(tg.ev[i].buf) = tg.ev[i].syms

\* C29: a transition function is skipped exactly when the same function is
\* already executing on the call stack; a skipped call changes no pressed flag,
\* state or activity time and invokes no callback; and every exit path clears
\* the function's guard, so that no guard is set once the top-level call has
\* returned.
C29_ReentryGuards ==
  /\ \A i \in 1..Len(ns.g_calls) :
       /\ ns.g_calls[i].skipped <=> ns.g_calls[i].nested
       /\ ns.g_calls[i].skipped => ~ns.g_calls[i].changed
  /\ \A i \in 1..Len(ns.g_stack) : ns.g_stack[i].skipped <=> ns.g_stack[i].nested
  /\ ns.g_stack = <<>> => ns.guard = {}

\* A call of ns_requestLocalUp made by a callback during ns_requestLocalUp was
\* skipped, and the outer call has released the key and returned.
C29_Witness ==
  /\ ns.g_stack = <<>>
  /\ nsCall.op = "requestLocalUp" /\ nsCall.localPressed /\ ~ns.localPressed
  /\ \E i \in 1..Len(ns.g_calls) :
       /\ ns.g_calls[i].fn = "requestLocalUp"
       /\ ns.g_calls[i].nested /\ ns.g_calls[i].skipped

\* The last call resolved a contention to s.
Resolved(s) ==
  \E i \in 1..(Len(ns.trace) - 1) : ns.trace[i] = CONTENTION /\ ns.trace[i + 1] = s

\* C30: each resolution of a contention yields exactly one of TX and RX, and
\* when contentions keep being resolved, TX wins infinitely often and RX wins
\* infinitely often.
C30_NoStarvation ==
  /\ [](\A i \in 1..Len(ns.trace) :
          ns.trace[i] = CONTENTION => i < Len(ns.trace) /\ ns.trace[i + 1] \in {TX, RX})
  /\ ([]<>(Resolved(TX) \/ Resolved(RX))) => ([]<>Resolved(TX) /\ []<>Resolved(RX))

\* C31: the interrupt ignores a raw transition exactly when fewer than
\* ISR_DEBOUNCE_US have elapsed since the last accepted transition or its level
\* equals the last accepted level.
C31_DebounceFromAccepted ==
  [][pin' # pin =>
       ((mk'.last_isr_state = mk.last_isr_state)
          <=> \/ now * 1000 - mk.g_accAt < ISR_DEBOUNCE_US
              \/ pin' = mk.last_isr_state)]_vars

\* C25: Finalize fires only when at least one symbol has been classified since
\* the previous Finalize: never for a silence that follows only releases which
\* produced no symbol.
C25_FinalizePerLetter ==
  \A i \in EvIdx : Is(i, "finalize") => tg.ev[i].syms # <<>>

\* C33: the duration that classifies a press and that LocalSymbol reports is the
\* time between the capture stamps of its down edge and its up edge, whenever
\* telegrapher_update drains them: a press of at least MIN_DOWN_MS that no
\* long-press consumed yields LocalSymbol(sym, d) with d that time.
LastRelease(i) == Is(i, "release") /\ \A j \in EvIdx : Is(j, "release") => j <= i

C33_CaptureDuration ==
  \A i \in EvIdx :
    (LastRelease(i) /\ tg.ev[i].lp = 0 /\ tg.g_cap >= MIN_DOWN_MS)
      => /\ Is(i + 1, "symbol")
         /\ tg.ev[i + 1].dur = tg.g_cap
         /\ tg.ev[i + 1].sym = DotOrDash(tg.g_cap)

\* The levels of the edges in Telegrapher's ring, oldest first.
RECURSIVE Levels(_, _, _)
Levels(st, i, n) ==
  IF n = 0 THEN <<>>
  ELSE <<st.tg_q[i].down>> \o Levels(st, (i + 1) % TG_EVENT_Q_SZ, n - 1)

\* What a key that is pressed or not emits for these edges when duplicates
\* emit nothing.
RECURSIVE Expect(_, _)
Expect(levels, pressed) ==
  IF levels = <<>> THEN <<>>
  ELSE IF Head(levels) = pressed THEN Expect(Tail(levels), pressed)
  ELSE <<IF Head(levels) THEN "down" ELSE "up">> \o Expect(Tail(levels), Head(levels))

DownUps(ev) ==
  LET x == SelectSeq(ev, LAMBDA r : r.e \in {"down", "up"})
  IN  [i \in 1..Len(x) |-> x[i].e]

\* The events ev[i..] are well bracketed for a key that is pressed or not, with
\* nsym symbols emitted for the current press, and leave the key as in last.
RECURSIVE Bracketed(_, _, _, _, _)
Bracketed(ev, i, pressed, nsym, last) ==
  IF i > Len(ev) THEN pressed = last
  ELSE IF ev[i].e = "down" THEN ~pressed /\ Bracketed(ev, i + 1, TRUE, 0, last)
  ELSE IF ev[i].e = "up" THEN pressed /\ Bracketed(ev, i + 1, FALSE, 0, last)
  ELSE IF ev[i].e = "symbol" THEN pressed /\ nsym = 0 /\ Bracketed(ev, i + 1, pressed, 1, last)
  ELSE Bracketed(ev, i + 1, pressed, nsym, last)

\* C34: LocalDown and LocalUp strictly alternate, starting with LocalDown; every
\* LocalSymbol comes between a LocalDown and its LocalUp, at most one per press;
\* a down edge while pressed or an up edge while not pressed emits nothing and
\* changes no state.
C34_WellBracketed ==
  [][tgCall' = "update" =>
       /\ Bracketed(tg'.ev, 1, tg.local_state_down, 0, tg'.local_state_down)
       /\ DownUps(tg'.ev) = Expect(Levels(tg, tg.tg_q_head, tg.tg_q_count), tg.local_state_down)
       /\ process_edge_nonisr(tg'.local_state_down, now * 1000, now, tg')
            = [tg' EXCEPT !.g_dup = TRUE]]_vars

\* An update met a duplicate edge and emitted a symbol.
C34_Witness ==
  /\ tgCall = "update" /\ tg.g_dup
  /\ \E i \in EvIdx : Is(i, "symbol")
  /\ ~tg.local_state_down

(***************************************************************************)
(* KeyInput claims, on the states of SpecTg.  After the interrupt          *)
(* (tgCall = "isr") pin is the level the key has just taken.               *)
(***************************************************************************)
\* C11: when the key goes up less than ISR_DEBOUNCE_US after it went down,
\* neither the down edge nor the up edge of that press has been pushed to
\* Telegrapher.
C11_ShortPressSilent ==
  (tgCall = "isr" /\ ~pin /\ now * 1000 - mk.g_pressAt < ISR_DEBOUNCE_US)
    => mk.g_pushed = 0

\* C35: no missed release: when the key is physically up and stays up, then once
\* telegrapher_update has drained the queue Telegrapher's pressed flag is
\* false and LongPress does not fire, whatever the raw transitions were.
C35_NoMissedRelease ==
  (tgCall = "update" /\ ~pin)
    => /\ ~tg.local_state_down
       /\ \A i \in EvIdx : ~Is(i, "longpress")

\* C12: under every interleaving of the interrupt's push with loop()'s pop, the
\* edges popped, followed by the edges still in the ring, are exactly the edges
\* pushed, in the order pushed, less the edges removed by the drop-oldest
\* branch: nothing is popped twice, out of order, or lost otherwise.
C12_CaptureOrder ==
  /\ q.out \o Ring(q) = SelectSeq(q.in, LAMBDA k : k \notin q.dropped)
  /\ \A i \in 1..Len(q.out) : \A j \in 1..Len(q.out) : i < j => q.out[i] < q.out[j]
  /\ q.tg_q_count \in 0..TG_EVENT_Q_SZ

\* A push that raced a pop and overflowed the ring, after which edges were popped.
C12_Witness ==
  /\ q.raced
  /\ q.dropped # {}
  /\ Len(q.out) >= 2
  /\ \E i \in 1..(Len(q.out) - 1) : q.out[i + 1] > q.out[i] + 1

NcUpdated == ncCall.op = "update"
Found(st) == ncCall.state = st

\* C13: once MAX_SCAN_ATTEMPTS scan attempts have ended without finding the
\* identifier, by completing without it or by timing out, the call that ends the
\* last of them leaves the endpoint in host mode; and the endpoint goes from
\* Scanning to Connecting only in a call whose scan found the identifier.
C13_HostAfterMaxScans ==
  NcUpdated =>
    /\ (Found(NC_SCANNING) /\ nc.g_ended >= MAX_SCAN_ATTEMPTS)
         => (nc.state = NC_AP_MODE /\ nc.apOn)
    /\ (Found(NC_SCANNING) /\ nc.state = NC_CONNECTING) => ncCall.e.scan = "found"

\* C26: discovery is bounded.  Every call that finds the endpoint in Scanning
\* and in which a scan attempt ends without the identifier (the scan failed,
\* completed without it, or was aborted by the scan timeout) either leaves
\* Scanning or counts the attempt, and the count of an endpoint that is still
\* in Scanning never exceeds MAX_SCAN_ATTEMPTS: so Scanning is left after at
\* most MAX_SCAN_ATTEMPTS such attempts.
ScanEnded ==
  /\ NcUpdated /\ Found(NC_SCANNING) /\ ncCall.lastScan >= SCAN_INTERVAL_MS
  /\ \/ ncCall.e.scan \in {"failed", "none"}
     \/ ncCall.e.scan = "running" /\ ncCall.lastScan > SCAN_TIMEOUT_MS

C26_DiscoveryBounded ==
  /\ (ScanEnded /\ nc.state = NC_SCANNING) => nc.scanAttempts > ncCall.attempts
  /\ nc.state = NC_SCANNING => nc.scanAttempts <= MAX_SCAN_ATTEMPTS

\* C37: when the keys of two connected endpoints are pressed at overlapping
\* times, then once each endpoint has processed the other's DOWN one
\* LinkArbiter is in TX and the other in RX.
C37_Complementary ==
  (/\ \A i \in Ends : pr.la[i].localPressed /\ pr.la[i].remotePressed
   /\ \A i \in Ends : pr.wire[i] = <<>>)
    => {pr.la[1].currentState, pr.la[2].currentState} = {TX, RX}

\* C39: the receive reassembly state does not leak across connections: the
\* bytes of a partial line buffered when a connection ended are never part of
\* a line completed from the bytes of a later connection.
C39_NoRxLeak == nc.g_leaks = <<>>

\* C14: two endpoints running against each other are never both connected in
\* the same role, the safety half of the claim (which also says that they
\* end up connected, one as host and one as client).
C14_NeverSameRole ==
  ~(/\ pr.on[1] /\ pr.on[2]
    /\ nc_isConnected(pr.ep[1]) /\ nc_isConnected(pr.ep[2])
    /\ nc_getRole(pr.ep[1]) = nc_getRole(pr.ep[2]))

\* C15: a call that finds the endpoint in host mode with no client, and is handed
\* none, re-scans when more than 20000 ms have passed since the last scan and
\* not before; when the re-scan finds the identifier the call leaves host mode
\* for Connecting (the role is no longer "AP"), when it finds none the endpoint
\* stays in host mode; and Connecting is left for Connected only as client.
C15_RescanAbandons ==
  NcUpdated =>
    /\ (Found(NC_AP_MODE) /\ ~ncCall.conn /\ ~ncCall.e.accept)
         => /\ (ncCall.lastScan > RescanMs /\ ncCall.e.scan = "found")
                 => /\ nc.state = NC_CONNECTING
                    /\ nc_getRole(nc) = "NONE"
                    /\ nc.connectStart = now
                    /\ nc.lastScan = now
            /\ (ncCall.lastScan > RescanMs /\ ncCall.e.scan # "found")
                 => (nc.state = NC_AP_MODE /\ nc.lastScan = now)
            /\ ncCall.lastScan <= RescanMs
                 => (nc.state = NC_AP_MODE /\ now - nc.lastScan = ncCall.lastScan)
    /\ (Found(NC_CONNECTING) /\ nc.state = NC_CONNECTED)
         => (nc.actingAsClient /\ nc_getRole(nc) = "CLIENT")

C15_Witness ==
  /\ NcUpdated
  /\ Found(NC_AP_MODE) /\ ~ncCall.conn /\ ~ncCall.e.accept
  /\ ncCall.e.scan = "found"
  /\ nc.state = NC_CONNECTING
  /\ nc.apOn

\* C16: a call that finds the endpoint in Connecting more than
\* CONNECT_WIFI_TIMEOUT_MS after it entered Connecting, and establishes no
\* stream connection, leaves it in Disconnected (or in host mode), whether the
\* join failed or the join succeeded and client.connect() failed.
C16_ConnectTimeout ==
  (/\ NcUpdated /\ Found(NC_CONNECTING)
   /\ now - nc.g_connSince > CONNECT_WIFI_TIMEOUT_MS
   /\ nc.state # NC_CONNECTED)
    => nc.state # NC_CONNECTING

\* C17: the delay a retry out of Disconnected waited for is greater than the
\* delay the retry before it waited for.
C17_BackoffGrows ==
  nc.g_retries >= 2 => nc.g_retryDelay > nc.g_prevRetryDelay

\* C18: a call writes "alive" only when it found the endpoint connected as
\* client and HEARTBEAT_INTERVAL_MS has passed since the last one, and then
\* once; an endpoint that is not acting as client writes one "alive_ack" for
\* each "alive" it reads and none otherwise; an endpoint acting as client
\* writes no "alive_ack", whatever it reads.
C18_HeartbeatRoles ==
  NcUpdated =>
    /\ Count(nc.sent, "alive") <= 1
    /\ Count(nc.sent, "alive") = 1
         => /\ Found(NC_CONNECTED) /\ ncCall.acting /\ ncCall.conn
            /\ ncCall.hbSentAgo >= HEARTBEAT_INTERVAL_MS
    /\ nc.actingAsClient => Count(nc.sent, "alive_ack") = 0
    /\ ncCall.acting => Count(nc.sent, "alive_ack") = 0
    /\ (~nc.actingAsClient /\ ~ncCall.acting) => Count(nc.sent, "alive_ack") = nc.g_alives
    /\ nc.g_alives = IF nc.conn THEN Count(ncCall.e.rx, "alive") ELSE 0
    /\ \A i \in 1..Len(nc.sent) : nc.sent[i] \in {"alive", "alive_ack"}

\* The host answers two "alive" lines with two "alive_ack" lines.
C18_Witness ==
  /\ NcUpdated
  /\ Found(NC_CONNECTED) /\ ~ncCall.acting
  /\ nc.g_alives = 2
  /\ nc.sent = <<"alive_ack", "alive_ack">>

\* C19: a call that finds the endpoint Connected, in either role, with no
\* heartbeat token received for HEARTBEAT_TIMEOUT_MS closes the stream and
\* leaves the Connected state, so that nc_isConnected() is false after it, and
\* invokes the disconnected callback; a call that finds the stream open and a
\* token received more recently does not tear the connection down.
C19_HeartbeatTimeout ==
  NcUpdated =>
    /\ (Found(NC_CONNECTED) /\ ncCall.hbIdle >= HEARTBEAT_TIMEOUT_MS)
         => /\ ~nc_isConnected(nc)
            /\ ~nc.conn
            /\ nc.state = IF ncCall.acting THEN NC_CONNECTING ELSE NC_AP_MODE
            /\ Count(nc.ev, "disconnected") = 1
    /\ (Found(NC_CONNECTED) /\ ncCall.conn /\ ncCall.hbIdle < HEARTBEAT_TIMEOUT_MS)
         => (nc_isConnected(nc) /\ nc.conn /\ nc.ev = <<>>)

\* The host tears down at exactly the timeout.
C19_Witness ==
  /\ NcUpdated
  /\ Found(NC_CONNECTED) /\ ~ncCall.acting /\ ncCall.conn
  /\ ncCall.hbIdle = HEARTBEAT_TIMEOUT_MS
  /\ nc.state = NC_AP_MODE

\* C20: nc_isConnected() is true exactly in NC_CONNECTED, entered as client or as
\* host, and false in the four other states; actingAsClient is set only in
\* NC_CONNECTED, so the role is "CLIENT" or "PEER" exactly when connected, never
\* both, and "AP" or "NONE" otherwise.
C20_ConnectedQuery ==
  /\ nc.state \in NC_State
  /\ nc_isConnected(nc) <=> nc.state \notin {NC_SCANNING, NC_CONNECTING, NC_AP_MODE, NC_DISCONNECTED}
  /\ nc_isActingClient(nc) => nc.state = NC_CONNECTED
  /\ nc_isConnected(nc) <=> nc_getRole(nc) \in {"CLIENT", "PEER"}
  /\ nc_getRole(nc) = "CLIENT" <=> (nc_isConnected(nc) /\ nc_isActingClient(nc))
  /\ nc_getRole(nc) = "PEER" <=> (nc_isConnected(nc) /\ ~nc_isActingClient(nc))
  /\ (NcUpdated /\ nc.state = NC_CONNECTED /\ ~Found(NC_CONNECTED))
       => /\ nc.conn
          /\ nc.actingAsClient <=> Found(NC_CONNECTING)
          /\ ~nc.actingAsClient <=> (Found(NC_AP_MODE) /\ ncCall.e.accept)

\* A client that has lost its stream: the flag is cleared with the state.
C20_Witness ==
  /\ NcUpdated
  /\ Found(NC_CONNECTED) /\ ncCall.acting
  /\ nc.state = NC_CONNECTING
  /\ ~nc_isActingClient(nc)
  /\ nc_getRole(nc) = "NONE"

(***************************************************************************)
(* Outgoing-queue claims, on the states of SpecOq.  After                  *)
(* nc_enqueueOutgoing (ncCall.op = "enqueue") ncCall.queued is the number  *)
(* of lines the call found in the queue; after updateNetworkConnect        *)
(* nc.sent lists what the call wrote to the stream.                        *)
(***************************************************************************)
Enqueued == ncCall.op = "enqueue"
Heartbeat(l) == l \in {"alive", "alive_ack"}
SubSeqFrom(seq, n) == [i \in 1..(Len(seq) - n) |-> seq[n + i]]

\* C21: the queue never holds more than OUTQ_SIZE lines; the lines written to
\* the stream, followed by the lines still queued, are the lines enqueued, in
\* the order enqueued, less those removed by the drop-oldest branch; an enqueue
\* into a full queue leaves it full, with the new line last and the line that was
\* second-oldest now oldest; the queued lines a call writes are written in
\* that order.
C21_BoundedFifo ==
  /\ nc.outCount \in 0..OUTQ_SIZE
  /\ nc.g_out \o Outq(nc) = SelectSeq(nc.g_in, LAMBDA l : l \notin nc.g_drop)
  /\ Enqueued =>
       /\ nc.outCount = IF ncCall.queued = OUTQ_SIZE THEN OUTQ_SIZE ELSE ncCall.queued + 1
       /\ Outq(nc)[nc.outCount] = nc.g_in[Len(nc.g_in)]
       /\ nc.g_full <=> ncCall.queued = OUTQ_SIZE
       /\ nc.g_full => nc.g_in[Len(nc.g_in) - OUTQ_SIZE] \in nc.g_drop
       /\ Cardinality(nc.g_drop) + Len(nc.g_out) + nc.outCount = Len(nc.g_in)
  /\ NcUpdated =>
       SelectSeq(nc.sent, LAMBDA l : ~Heartbeat(l))
         = SubSeqFrom(nc.g_out, Len(nc.g_out) - nc.g_wrote)

\* The queue overflowed, wrapped, and what was left of it was written.
C21_Witness ==
  /\ NcUpdated
  /\ nc.g_drop # {}
  /\ nc.g_wrote = OUTQ_SIZE
  /\ Len(nc.g_out) > OUTQ_SIZE
  /\ Len(nc.g_in) = OqMaxPush

\* C27 as claimed: a call of updateNetworkConnect writes at most one queued line
\* to the stream, also the call that establishes the connection; a call that
\* leaves no stream connected writes none and leaves the queue as it found it.
C27_Original ==
  NcUpdated =>
    /\ nc.g_wrote <= 1
    /\ ~nc.conn => (nc.g_wrote = 0 /\ nc.outCount = ncCall.queued)

\* C27 amended: outq_send_one_if_connected writes at most one queued line per
\* call, but updateNetworkConnect repeats it until the queue is empty: a call
\* that establishes or keeps the connection writes the whole backlog, in order,
\* within that call.  Every queued line the call found is either written once
\* or still queued; a call that leaves no stream connected writes none and
\* leaves the queue as it found it.
C27_FlushDrains ==
  NcUpdated =>
    /\ nc.g_wrote + nc.outCount = ncCall.queued
    /\ ~nc.conn => (nc.g_wrote = 0 /\ nc.outCount = ncCall.queued)
    /\ nc.state = NC_CONNECTED => (nc.outCount = 0 /\ nc.g_wrote = ncCall.queued)

\* The call that connects as client writes a backlog of two lines.
C27_Witness ==
  /\ NcUpdated
  /\ Found(NC_CONNECTING)
  /\ nc.state = NC_CONNECTED
  /\ ncCall.queued = 2
  /\ nc.sent = <<OqLines[1], OqLines[2]>>

(***************************************************************************)
(* LineProtocol claims, on the states of SpecMt.  After                    *)
(* morse_telecom_handleIncomingLine (mt.op = "recv") mt.ev lists the       *)
(* callbacks it invoked, nsCall what the LinkArbiter was before the call   *)
(* and ns what the callbacks left.                                         *)
(***************************************************************************)
Received == mt.op = "recv"

\* C22: the line that morse_telecom_sendSymbol(s, n) produces for s in {'.', '-'},
\* handed to morse_telecom_handleIncomingLine, invokes the remote-symbol callback
\* once, with (s, n), and no other callback.
C22_SymbolRoundTrip ==
  (Received /\ mt.from = "sendSymbol") => mt.ev = <<RemoteEv("symbol", mt.sym, mt.dur)>>

C22_Witness ==
  /\ Received /\ mt.from = "sendSymbol"
  /\ mt.ev = <<RemoteEv("symbol", "-", 1000000)>>

\* C23: a line of the other endpoint that carries ";src:<id>" with a foreign id
\* invokes the same callback as the bare line: remote down for DOWN, remote up
\* for UP, remote symbol with (c, n) for sym:<c>;dur:<n>.
C23_SuffixAccepted ==
  (Received /\ mt.from = "peer" /\ mt.kind # "other" /\ mt.src \in {"", PeerId})
    => mt.ev = <<RemoteEv(mt.kind, mt.sym, mt.dur)>>

\* C28: a line that carries this endpoint's own identifier after ";src:" invokes
\* no callback and leaves the LinkArbiter's state and activity time as they were.
C28_SelfOriginDropped ==
  (Received /\ mt.from = "peer" /\ mt.src = SelfId)
    => /\ mt.ev = <<>>
       /\ ns.currentState = nsCall.state
       /\ now - ns.lastActivityAt = nsCall.idle

\* C40: the remote-symbol callback is invoked only with a symbol that is dot or
\* dash: a line whose symbol field is anything else, or empty, produces no
\* event.
C40_SymbolValidated ==
  \A i \in 1..Len(mt.ev) : mt.ev[i].e = "symbol" => mt.ev[i].sym \in {".", "-"}

=============================================================================
